---- MODULE Spec2Model ----
(***************************************************************************)
(* A model of lpm: the scan/detect/classify/prune engine                   *)
(* (src/lpm/scanner.py, src/lpm/git_utils.py, src/lpm/project.py), the     *)
(* README operations (src/lpm/readme_manager.py), the configuration        *)
(* (src/lpm/config.py) and the terminal UI (src/lpm/app.py).               *)
(*                                                                         *)
(* Names are sequences of tokens: "App.csproj" is <<"App", ".csproj">>,    *)
(* "Gemfile" is <<"Gemfile">>, the glob "*.csproj" is <<"*", ".csproj">>.  *)
(* A path is a sequence of names.  An optional value is a sequence of      *)
(* length 0 (None) or 1.  A float number of megabytes is the exact         *)
(* rational [n, d]; times are integer ticks.                               *)
(***************************************************************************)
EXTENDS Integers, Sequences, FiniteSets, TLC

VARIABLES
    fs,         \* the filesystem: path -> entry
    now,        \* the wall clock read by datetime.now(), in ticks
    args,       \* the arguments of the top-level scan_for_projects call
    stack,      \* the call stack of scan_for_projects, innermost frame last
    outcome,    \* "idle" | "running" | "returned" | "raised"
    result,     \* the list the top-level call returned
    progress,   \* the calls the progress sink received: <<path, count>>
    evaluated,  \* the directories is_project_directory was called on, in call order
    listing,    \* the order in which os.scandir yields names
    deleted,    \* the paths a concurrent process removed during the scan
    call,       \* a direct call of one pure function: its name and inputs
    ret,        \* what that call returned
    app         \* the application's objects: the Config and the terminal UI

vars == <<fs, listing, now, args, stack, outcome, result, progress, evaluated, deleted, call, ret, app>>

scanVars == <<fs, listing, now, args, stack, outcome, result, progress, evaluated, deleted>>

pureVars == <<call, ret, app>>

(***************************************************************************)
(* Bounds of the model.                                                    *)
(***************************************************************************)
TicksPerDay == 2

MaxEntries == 2

MaxAgeDays == 4

MaxDeletes == 1

MaxSizeMb == 3

MaxSinkCalls == 3

MaxWaitDays == 3

MaxRemotes == 2

MaxLines == 2

MaxConfigs == 2

MaxLoads == 2

(***************************************************************************)
(* Optionals, rationals, sequences.                                        *)
(***************************************************************************)
None == <<>>

Some(x) == <<x>>

IsNone(o) == o = <<>>

Rat(n, d) == [n |-> n, d |-> d]

RatGT(a, b) == a.n * b.d > b.n * a.d

RatLT(a, b) == a.n * b.d < b.n * a.d

Range(s) == {s[i] : i \in 1..Len(s)}

Max(a, b) == IF a >= b THEN a ELSE b

RECURSIVE SetToSeq(_, _)
\* The elements of set S as a sequence, in the order of sequence `order`.
SetToSeq(S, order) ==
    IF order = <<>> THEN <<>>
    ELSE IF Head(order) \in S THEN <<Head(order)>> \o SetToSeq(S, Tail(order))
    ELSE SetToSeq(S, Tail(order))

(***************************************************************************)
(* project.py: the enums.                                                  *)
(***************************************************************************)
PYTHON == "Python"
NODEJS == "Node.js"
RUST == "Rust"
GO == "Go"
JAVA == "Java"
PHP == "PHP"
CSHARP == "C#/.NET"
RUBY == "Ruby"
UNKNOWN == "Unknown"

CLEAN == "clean"
DIRTY == "dirty"
UNPUSHED == "unpushed"
NO_REMOTE == "no_remote"

ACTIVE == "Active"
WIP == "Work-in-Progress"
DORMANT == "Dormant"
STALE == "Stale"

Classifications == {ACTIVE, WIP, DORMANT, STALE}

(***************************************************************************)
(* scanner.py: the marker tables.                                          *)
(***************************************************************************)
PROJECT_TYPE_MARKERS ==
    << [type |-> PYTHON, markers |-> << <<"pyproject", ".toml">>, <<"setup", ".py">>, <<"requirements", ".txt">> >>],
       [type |-> NODEJS, markers |-> << <<"package", ".json">> >>],
       [type |-> RUST,   markers |-> << <<"Cargo", ".toml">> >>],
       [type |-> GO,     markers |-> << <<"go", ".mod">> >>],
       [type |-> JAVA,   markers |-> << <<"pom", ".xml">>, <<"build", ".gradle">> >>],
       [type |-> PHP,    markers |-> << <<"composer", ".json">> >>],
       [type |-> CSHARP, markers |-> << <<".csproj">>, <<".sln">> >>],
       [type |-> RUBY,   markers |-> << <<"Gemfile">> >>] >>

README_NAMES ==
    << <<"README", ".md">>, <<"README", ".txt">>, <<"readme", ".md">>,
       <<"readme", ".txt">>, <<"Readme", ".md">>, <<"Readme", ".txt">> >>

GIT_DIR == <<".git">>

BYTES_PER_MB == 1048576

(***************************************************************************)
(* The filesystem.  fs maps each existing path to its entry:               *)
(*   type   "dir" | "file" | "link" (a symlink to a directory)             *)
(*   mtime  st_mtime, in ticks                                             *)
(*   size   st_size, in bytes                                              *)
(*   mode   "rwx" | "-wx" (listing it is denied) | "rw-" (looking up a     *)
(*          name in it is denied)                                          *)
(*   repo   what GitPython reads from it (.git directories of the scanned  *)
(*          trees only; any other .git is no repository)                   *)
(* Failing system calls answer with an error value instead of an entry.    *)
(***************************************************************************)
ENOENT == "FileNotFoundError"
ENOTDIR == "NotADirectoryError"
EACCES == "PermissionError"
EPIPE == "BrokenPipeError"

\* The subclasses of OSError that occur in the model.
OSErrors == {ENOENT, ENOTDIR, EACCES, EPIPE}

ParentOf(p) == SubSeq(p, 1, Len(p) - 1)

BaseName(p) == p[Len(p)]

IsPrefix(p, q) == Len(p) <= Len(q) /\ SubSeq(q, 1, Len(p)) = p

IsProperPrefix(p, q) == Len(p) < Len(q) /\ IsPrefix(p, q)

Children(f, p) == {q \in DOMAIN f : Len(q) = Len(p) + 1 /\ ParentOf(q) = p}

RealDirs(f) == {p \in DOMAIN f : f[p].type = "dir"}

RECURSIVE Lookup(_, _, _)
\* The kernel's path walk to path p, having resolved its first k names:
\* "ok", or the errno of the first component that stops it.
Lookup(f, p, k) ==
    LET q == SubSeq(p, 1, k) IN
    IF q \notin DOMAIN f THEN ENOENT
    ELSE IF k = Len(p) THEN "ok"
    ELSE IF f[q].type = "file" THEN ENOTDIR
    ELSE IF f[q].mode = "rw-" THEN EACCES
    ELSE Lookup(f, p, k + 1)

\* path.stat(): "ok" or the error raised.  The scan root is given as an
\* absolute path whose parents are searchable, so the walk starts at it.
Stat(f, root, p) == Lookup(f, p, Len(root))

\* Path.exists() (Python 3.11): False on ENOENT/ENOTDIR, raises otherwise.
\* TRUE, FALSE, or the error raised.
PathExists(f, root, p) ==
    LET s == Stat(f, root, p) IN
    IF s = "ok" THEN "true"
    ELSE IF s \in {ENOENT, ENOTDIR} THEN "false"
    ELSE s

\* os.scandir(p): "ok" or the error raised.
ScandirStatus(f, root, p) ==
    LET s == Stat(f, root, p) IN
    IF s # "ok" THEN s
    ELSE IF f[p].type = "file" THEN ENOTDIR
    ELSE IF f[p].mode = "-wx" THEN EACCES
    ELSE "ok"

(***************************************************************************)
(* Results of calls that may raise: [err |-> "ok", val |-> v] or           *)
(* [err |-> the exception, val |-> None].                                  *)
(***************************************************************************)
Ok(v) == [err |-> "ok", val |-> v]

Err(e) == [err |-> e, val |-> None]

\* repo: the exception a GitPython operation raises on it ("none" when all
\* succeed) and the operation that raises it ("Repo", "is_dirty" or
\* "iter_commits"), its remotes in enumeration order, and the facts the
\* status is derived from.
NoRepo == [raises |-> "InvalidGitRepositoryError", at |-> "Repo", remotes |-> <<>>,
           dirty |-> FALSE, detached |-> FALSE, tracking |-> FALSE, ahead |-> FALSE]

(***************************************************************************)
(* scanner.py: detection.                                                  *)
(***************************************************************************)
\* fnmatch of one name against a pattern that may start with "*".
GlobMatch(name, pat) ==
    IF pat # <<>> /\ Head(pat) = "*"
    THEN LET lit == Tail(pat) IN
         /\ Len(name) >= Len(lit)
         /\ SubSeq(name, Len(name) - Len(lit) + 1, Len(name)) = lit
    ELSE name = pat

\* list(project_path.glob(marker)): the matching direct entries; an
\* unreadable or missing directory yields none.
Glob(f, root, path, marker) ==
    IF ScandirStatus(f, root, path) # "ok" THEN {}
    ELSE {q \in Children(f, path) : GlobMatch(BaseName(q), marker)}

RECURSIVE FlattenMarkers(_)
\* PROJECT_TYPE_MARKERS in iteration order, one <<type, marker>> per marker.
FlattenMarkers(table) ==
    IF table = <<>> THEN <<>>
    ELSE [i \in 1..Len(Head(table).markers) |-> <<Head(table).type, Head(table).markers[i]>>]
         \o FlattenMarkers(Tail(table))

RECURSIVE DetectFrom(_, _, _, _)
DetectFrom(f, root, path, todo) ==
    IF todo = <<>> THEN Ok(UNKNOWN)
    ELSE LET type == Head(todo)[1]
             marker == Head(todo)[2]
         IN IF "*" \in Range(marker)
            THEN IF Glob(f, root, path, marker) # {} THEN Ok(type)
                 ELSE DetectFrom(f, root, path, Tail(todo))
            ELSE LET e == PathExists(f, root, Append(path, marker)) IN
                 IF e = "true" THEN Ok(type)
                 ELSE IF e = "false" THEN DetectFrom(f, root, path, Tail(todo))
                 ELSE Err(e)

detect_project_type(f, root, path) ==
    DetectFrom(f, root, path, FlattenMarkers(PROJECT_TYPE_MARKERS))

\* str.lower() of one name, over the names of the model.
Lower(name) ==
    [i \in 1..Len(name) |->
        CASE name[i] = "Node_Modules" -> "node_modules"
          [] name[i] = "README" -> "readme"
          [] name[i] = "Readme" -> "readme"
          [] name[i] = "Cargo" -> "cargo"
          [] name[i] = "Gemfile" -> "gemfile"
          [] name[i] = "App" -> "app"
          [] OTHER -> name[i]]

\* Mutant: the comparison folds case.
should_ignore_directory_nocase(dir_name, ignore_patterns) ==
    Lower(dir_name) \in {Lower(x) : x \in Range(ignore_patterns)}

should_ignore_directory(dir_name, ignore_patterns) ==
    dir_name \in Range(ignore_patterns)

RECURSIVE FindReadmeFrom(_, _, _, _)
FindReadmeFrom(f, root, path, names) ==
    IF names = <<>> THEN Ok(None)
    ELSE LET readme_path == Append(path, Head(names))
             e == PathExists(f, root, readme_path)
         IN IF e = "true"
            THEN IF f[readme_path].type = "file" THEN Ok(Some(readme_path))
                 ELSE FindReadmeFrom(f, root, path, Tail(names))
            ELSE IF e = "false" THEN FindReadmeFrom(f, root, path, Tail(names))
            ELSE Err(e)

find_readme(f, root, path) == FindReadmeFrom(f, root, path, README_NAMES)

\* Mutant: the README check is missing.
is_project_directory_noreadme(f, root, path) ==
    LET g == PathExists(f, root, Append(path, GIT_DIR)) IN
    IF g = "true" THEN Ok(TRUE)
    ELSE IF g # "false" THEN Err(g)
    ELSE LET t == detect_project_type(f, root, path) IN
         IF t.err # "ok" THEN Err(t.err)
         ELSE IF t.val # UNKNOWN THEN Ok(TRUE)
         ELSE Ok(FALSE)

is_project_directory(f, root, path) ==
    LET g == PathExists(f, root, Append(path, GIT_DIR)) IN
    IF g = "true" THEN Ok(TRUE)
    ELSE IF g # "false" THEN Err(g)
    ELSE LET r == find_readme(f, root, path) IN
         IF r.err # "ok" THEN Err(r.err)
         ELSE IF ~IsNone(r.val) THEN Ok(TRUE)
         ELSE LET t == detect_project_type(f, root, path) IN
              IF t.err # "ok" THEN Err(t.err)
              ELSE IF t.val # UNKNOWN THEN Ok(TRUE)
              ELSE Ok(FALSE)

(***************************************************************************)
(* scanner.py: size and latest modification.  os.walk yields a directory   *)
(* when listing it succeeds, descends into real sub-directories only, and  *)
(* swallows every listing error.                                           *)
(***************************************************************************)
RECURSIVE WalkFrom(_, _, _)
WalkFrom(f, root, todo) ==
    IF todo = {} THEN {}
    ELSE LET d == CHOOSE x \in todo : \A y \in todo : Len(x) <= Len(y)
             rest == todo \ {d}
         IN IF ScandirStatus(f, root, d) # "ok" THEN WalkFrom(f, root, rest)
            ELSE {d} \cup WalkFrom(f, root,
                     rest \cup {q \in Children(f, d) : f[q].type = "dir"})

\* Mutant: the walk stops below the first level of sub-directories.
Walk_one_level(f, root, path) ==
    {d \in WalkFrom(f, root, {path}) : Len(d) <= Len(path) + 1}

\* The dirpaths os.walk(path) yields.
Walk(f, root, path) == WalkFrom(f, root, {path})

\* Mutant: the files of nested projects are left to those projects.
WalkedFiles_own(f, root, path) ==
    {q \in DOMAIN f : /\ f[q].type = "file"
                      /\ ParentOf(q) \in Walk(f, root, path)
                      /\ Stat(f, root, q) = "ok"
                      /\ \A d \in Walk(f, root, path) :
                            (IsProperPrefix(path, d) /\ IsPrefix(d, q)) =>
                                is_project_directory(f, root, d) # Ok(TRUE)}

\* The files of the yielded directories whose stat() succeeds.
WalkedFiles(f, root, path) ==
    {q \in DOMAIN f : /\ f[q].type = "file"
                      /\ ParentOf(q) \in Walk(f, root, path)
                      /\ Stat(f, root, q) = "ok"}

RECURSIVE SumSizes(_, _)
SumSizes(f, S) ==
    IF S = {} THEN 0
    ELSE LET q == CHOOSE x \in S : TRUE IN f[q].size + SumSizes(f, S \ {q})

RECURSIVE MaxOf(_)
MaxOf(S) ==
    LET x == CHOOSE y \in S : TRUE IN
    IF S = {x} THEN x ELSE Max(x, MaxOf(S \ {x}))

\* Mutant: only the files directly under path are summed.
get_directory_size_toplevel(f, root, path) ==
    Rat(SumSizes(f, {q \in WalkedFiles(f, root, path) : ParentOf(q) = path}), BYTES_PER_MB)

get_directory_size(f, root, path) ==
    Rat(SumSizes(f, WalkedFiles(f, root, path)), BYTES_PER_MB)

\* Mutant: most_recent starts from the clock instead of the directory's
\* own mtime.
get_last_modified_from_now(f, root, path) ==
    LET s == Stat(f, root, path) IN
    IF s # "ok" THEN Err(s)
    ELSE Ok(MaxOf({now}
                  \cup {f[d].mtime : d \in {x \in Walk(f, root, path) : Stat(f, root, x) = "ok"}}
                  \cup {f[q].mtime : q \in WalkedFiles(f, root, path)}))

get_last_modified(f, root, path) ==
    LET s == Stat(f, root, path) IN
    IF s # "ok" THEN Err(s)
    ELSE Ok(MaxOf({f[path].mtime}
                  \cup {f[d].mtime : d \in {x \in Walk(f, root, path) : Stat(f, root, x) = "ok"}}
                  \cup {f[q].mtime : q \in WalkedFiles(f, root, path)}))

(***************************************************************************)
(* scanner.py: classification and the prune decision.                      *)
(***************************************************************************)
\* Mutant: the active boundary is exclusive.
classify_project_strict(nowT, last_modified, has_git_remote, has_readme, active_threshold, dormant_threshold) ==
    LET age_days == (nowT - last_modified) \div TicksPerDay IN
    IF age_days < active_threshold
    THEN IF has_git_remote \/ has_readme THEN ACTIVE ELSE WIP
    ELSE IF age_days <= dormant_threshold THEN DORMANT
    ELSE STALE

classify_project(nowT, last_modified, has_git_remote, has_readme, active_threshold, dormant_threshold) ==
    LET age_days == (nowT - last_modified) \div TicksPerDay IN
    IF age_days <= active_threshold
    THEN IF has_git_remote \/ has_readme THEN ACTIVE ELSE WIP
    ELSE IF age_days <= dormant_threshold THEN DORMANT
    ELSE STALE

\* Mutant: a size equal to the large threshold counts as large.
is_prunable_ge(classification, has_git_remote, size_mb, min_size_mb, max_size_mb) ==
    IF classification # STALE THEN FALSE
    ELSE IF has_git_remote THEN FALSE
    ELSE ~RatLT(size_mb, min_size_mb) \/ RatLT(size_mb, max_size_mb)

is_prunable(classification, has_git_remote, size_mb, min_size_mb, max_size_mb) ==
    IF classification # STALE THEN FALSE
    ELSE IF has_git_remote THEN FALSE
    ELSE RatGT(size_mb, min_size_mb) \/ RatLT(size_mb, max_size_mb)

(***************************************************************************)
(* git_utils.py.                                                           *)
(***************************************************************************)
\* next(remote.urls, None)
FirstUrl(remote) == IF remote.urls = <<>> THEN None ELSE Some(remote.urls[1])

(***************************************************************************)
(* readme_manager.py.  The content of a file is kept in a field `content`  *)
(* of its entry: a template and the project name formatted into it.        *)
(***************************************************************************)
GENERIC_TEMPLATE == "GENERIC_TEMPLATE"

get_readme_template(project_name, project_type) ==
    [template |-> IF project_type \in {PYTHON, NODEJS, RUST, GO}
                  THEN project_type ELSE GENERIC_TEMPLATE,
     project_name |-> project_name]

\* readme_path.write_text(content) at time nowT: the file is created or
\* truncated, and creating a name updates the directory's mtime.
WriteText(f, nowT, path, content) ==
    (path :> [type |-> "file", mtime |-> nowT, size |-> 512, mode |-> "rwx",
              content |-> content])
    @@ (IF path \in DOMAIN f THEN f
        ELSE [f EXCEPT ![ParentOf(path)] = [@ EXCEPT !.mtime = nowT]])

\* Mutant: the existence check is missing.
create_readme_overwrite(f, nowT, project_path, project_name, project_type) ==
    LET readme_path == Append(project_path, <<"README", ".md">>) IN
    IF Stat(f, project_path, project_path) # "ok" THEN [ret |-> Err(ENOENT), fs |-> f]
    ELSE [ret |-> Ok(readme_path),
          fs |-> WriteText(f, nowT, readme_path,
                           get_readme_template(project_name, project_type))]

\* The value returned or the exception raised, and the filesystem after.
create_readme(f, nowT, project_path, project_name, project_type) ==
    LET readme_path == Append(project_path, <<"README", ".md">>)
        e == PathExists(f, project_path, readme_path)
    IN IF e = "true" THEN [ret |-> Err("FileExistsError"), fs |-> f]
       ELSE IF e # "false" THEN [ret |-> Err(e), fs |-> f]
       ELSE IF Stat(f, project_path, project_path) # "ok" THEN [ret |-> Err(ENOENT), fs |-> f]
       ELSE IF f[project_path].type # "dir" THEN [ret |-> Err(ENOTDIR), fs |-> f]
       ELSE [ret |-> Ok(readme_path),
             fs |-> WriteText(f, nowT, readme_path,
                              get_readme_template(project_name, project_type))]

\* Mutant: the first remote is taken, whatever its name.
RemoteUrl_first(repo) ==
    IF repo.remotes = <<>> THEN None
    ELSE FirstUrl(repo.remotes[1])

RemoteUrl(repo) ==
    IF repo.remotes = <<>> THEN None
    ELSE IF \E i \in 1..Len(repo.remotes) : repo.remotes[i].name = "origin"
         THEN FirstUrl(repo.remotes[CHOOSE i \in 1..Len(repo.remotes) : repo.remotes[i].name = "origin"])
         ELSE FirstUrl(repo.remotes[1])

\* lines 39-67; the inner try (lines 46-67) turns a GitCommandError or
\* ValueError of the unpushed check into CLEAN
\* Mutant: a repository without remote goes on to the working-tree checks.
GitStatusOf_remote_unchecked(repo, remote_url) ==
    IF repo.dirty THEN DIRTY
    ELSE IF repo.ahead THEN UNPUSHED
    ELSE CLEAN

GitStatusOf(repo, remote_url) ==
    IF IsNone(remote_url) THEN NO_REMOTE
    ELSE IF repo.dirty THEN DIRTY
    ELSE IF repo.detached THEN CLEAN
    ELSE IF ~repo.tracking THEN NO_REMOTE
    ELSE IF repo.at = "iter_commits" /\ repo.raises \in {"GitCommandError", "ValueError"}
         THEN CLEAN
    ELSE IF repo.ahead THEN UNPUSHED
    ELSE CLEAN

\* The exception that leaves the try body of lines 24-69, "none" if it
\* completes: is_dirty is called when a remote URL was found, iter_commits
\* on a clean tree with an attached head that tracks an upstream.
RaisedInTry(repo, remote_url) ==
    IF repo.raises = "none" THEN "none"
    ELSE IF repo.at = "Repo" THEN repo.raises
    ELSE IF IsNone(remote_url) THEN "none"
    ELSE IF repo.at = "is_dirty" THEN repo.raises
    ELSE IF /\ repo.at = "iter_commits"
            /\ ~repo.dirty /\ ~repo.detached /\ repo.tracking
            /\ repo.raises \notin {"GitCommandError", "ValueError"}
         THEN repo.raises
    ELSE "none"

get_git_info(f, root, project_path) ==
    LET git_dir == Append(project_path, GIT_DIR)
        e == PathExists(f, root, git_dir)
    IN IF e = "false" THEN Ok([has_git |-> FALSE, git_remote |-> None, git_status |-> None])
       ELSE IF e # "true" THEN Err(e)
       ELSE LET repo == IF "repo" \in DOMAIN f[git_dir] THEN f[git_dir].repo ELSE NoRepo
                x == RaisedInTry(repo, RemoteUrl(repo))
            IN IF x \in {"InvalidGitRepositoryError", "GitCommandError"}
               THEN Ok([has_git |-> TRUE, git_remote |-> None, git_status |-> None])
               ELSE IF x # "none" THEN Err(x)
               ELSE Ok([has_git |-> TRUE, git_remote |-> RemoteUrl(repo),
                        git_status |-> Some(GitStatusOf(repo, RemoteUrl(repo)))])

(***************************************************************************)
(* scanner.py, scan_for_projects: building one Project.  The root branch   *)
(* and the child branch are two copies of the same code.                   *)
(***************************************************************************)
EvaluateRoot(f, nowT, a) ==
    LET scan_path == a.scan_path
        g == get_git_info(f, scan_path, scan_path)
        readme == find_readme(f, scan_path, scan_path)
        ptype == detect_project_type(f, scan_path, scan_path)
        last_modified == get_last_modified(f, scan_path, scan_path)
        size_mb == get_directory_size(f, scan_path, scan_path)
    IN IF g.err # "ok" THEN Err(g.err)
       ELSE IF readme.err # "ok" THEN Err(readme.err)
       ELSE IF ptype.err # "ok" THEN Err(ptype.err)
       ELSE IF last_modified.err # "ok" THEN Err(last_modified.err)
       ELSE LET classification == classify_project(nowT, last_modified.val,
                                      ~IsNone(g.val.git_remote), ~IsNone(readme.val),
                                      a.active_threshold, a.dormant_threshold)
                prunable == is_prunable(classification, ~IsNone(g.val.git_remote), size_mb,
                                      a.prunable_min_size_mb, a.prunable_max_size_mb)
            IN Ok([path |-> scan_path, name |-> BaseName(scan_path),
                   has_git |-> g.val.has_git, git_remote |-> g.val.git_remote,
                   git_status |-> g.val.git_status, readme_path |-> readme.val,
                   project_type |-> ptype.val, last_modified |-> last_modified.val,
                   size_mb |-> size_mb, classification |-> classification,
                   is_prunable |-> prunable])

\* Mutant: the child branch passes has_git where the remote is meant.
EvaluateChild_has_git(f, nowT, a, dir_path, dir_name) ==
    LET g == get_git_info(f, a.scan_path, dir_path)
        readme == find_readme(f, a.scan_path, dir_path)
        ptype == detect_project_type(f, a.scan_path, dir_path)
        last_modified == get_last_modified(f, a.scan_path, dir_path)
        size_mb == get_directory_size(f, a.scan_path, dir_path)
    IN IF g.err # "ok" THEN Err(g.err)
       ELSE IF readme.err # "ok" THEN Err(readme.err)
       ELSE IF ptype.err # "ok" THEN Err(ptype.err)
       ELSE IF last_modified.err # "ok" THEN Err(last_modified.err)
       ELSE LET classification == classify_project(nowT, last_modified.val,
                                      g.val.has_git, ~IsNone(readme.val),
                                      a.active_threshold, a.dormant_threshold)
                prunable == is_prunable(classification, g.val.has_git, size_mb,
                                      a.prunable_min_size_mb, a.prunable_max_size_mb)
            IN Ok([path |-> dir_path, name |-> dir_name,
                   has_git |-> g.val.has_git, git_remote |-> g.val.git_remote,
                   git_status |-> g.val.git_status, readme_path |-> readme.val,
                   project_type |-> ptype.val, last_modified |-> last_modified.val,
                   size_mb |-> size_mb, classification |-> classification,
                   is_prunable |-> prunable])

EvaluateChild(f, nowT, a, dir_path, dir_name) ==
    LET g == get_git_info(f, a.scan_path, dir_path)
        readme == find_readme(f, a.scan_path, dir_path)
        ptype == detect_project_type(f, a.scan_path, dir_path)
        last_modified == get_last_modified(f, a.scan_path, dir_path)
        size_mb == get_directory_size(f, a.scan_path, dir_path)
    IN IF g.err # "ok" THEN Err(g.err)
       ELSE IF readme.err # "ok" THEN Err(readme.err)
       ELSE IF ptype.err # "ok" THEN Err(ptype.err)
       ELSE IF last_modified.err # "ok" THEN Err(last_modified.err)
       ELSE LET classification == classify_project(nowT, last_modified.val,
                                      ~IsNone(g.val.git_remote), ~IsNone(readme.val),
                                      a.active_threshold, a.dormant_threshold)
                prunable == is_prunable(classification, ~IsNone(g.val.git_remote), size_mb,
                                      a.prunable_min_size_mb, a.prunable_max_size_mb)
            IN Ok([path |-> dir_path, name |-> dir_name,
                   has_git |-> g.val.has_git, git_remote |-> g.val.git_remote,
                   git_status |-> g.val.git_status, readme_path |-> readme.val,
                   project_type |-> ptype.val, last_modified |-> last_modified.val,
                   size_mb |-> size_mb, classification |-> classification,
                   is_prunable |-> prunable])

(***************************************************************************)
(* scanner.py, scan_for_projects: the walk, one frame per call.            *)
(*   pc  "check_root" line 265 | "root_meta" 266-304 | "scandir" 308 |     *)
(*       "loop" 308-324 | "child_meta" 326-364 | "in_call" 367-376 |       *)
(*       "return" 383                                                      *)
(***************************************************************************)
\* Mutant: every call checks its own scan_path, as if _check_root were
\* not passed down as False.
Frame_AlwaysCheckRoot(scan_path, check_root) ==
    [scan_path |-> scan_path, check_root |-> TRUE, pc |-> "check_root",
     entries |-> <<>>, cur |-> <<>>, projects |-> <<>>]

Frame(scan_path, check_root) ==
    [scan_path |-> scan_path, check_root |-> check_root,
     pc |-> IF check_root THEN "check_root" ELSE "scandir",
     entries |-> <<>>, cur |-> <<>>, projects |-> <<>>]

Top == stack[Len(stack)]

SetTop(fr) == [stack EXCEPT ![Len(stack)] = fr]

Running(pc) == outcome = "running" /\ stack # <<>> /\ Top.pc = pc

\* Mutant: is_dir() with its default follow_symlinks=True.
ScandirEntries_FollowLinks(f, order, path) ==
    LET names == {BaseName(q) : q \in Children(f, path)} IN
    [i \in 1..Len(SetToSeq(names, order)) |->
        [name |-> SetToSeq(names, order)[i],
         is_dir |-> f[Append(path, SetToSeq(names, order)[i])].type \in {"dir", "link"}]]

\* The entries os.scandir yields, each with the d_type it caches.
ScandirEntries(f, order, path) ==
    LET names == {BaseName(q) : q \in Children(f, path)} IN
    [i \in 1..Len(SetToSeq(names, order)) |->
        [name |-> SetToSeq(names, order)[i],
         is_dir |-> f[Append(path, SetToSeq(names, order)[i])].type = "dir"]]

RECURSIVE SkipEntries(_, _)
\* The two `continue`s of the loop: entries that are not real directories
\* and entries whose name is ignored.
SkipEntries(entries, ignore_patterns) ==
    IF entries = <<>> THEN <<>>
    ELSE IF ~Head(entries).is_dir THEN SkipEntries(Tail(entries), ignore_patterns)
    ELSE IF should_ignore_directory(Head(entries).name, ignore_patterns)
         THEN SkipEntries(Tail(entries), ignore_patterns)
    ELSE entries

\* progress_callback raises on the call that is about to be made.
SinkRaises == args.progress_callback /\ args.sink.at = Len(progress) + 1

\* The exception leaves scan_for_projects: no frame catches it.
Raise ==
    /\ stack' = <<>>
    /\ outcome' = "raised"
    /\ result' = <<>>

CallScan ==
    /\ outcome = "idle"
    /\ stack' = <<Frame(args.scan_path, TRUE)>>
    /\ outcome' = "running"
    /\ UNCHANGED <<fs, listing, now, args, result, progress, evaluated, deleted, call, ret, app>>

\* line 265
CheckRoot ==
    /\ Running("check_root")
    /\ LET r == is_project_directory(fs, args.scan_path, Top.scan_path) IN
       /\ evaluated' = Append(evaluated, Top.scan_path)
       /\ IF r.err # "ok" THEN Raise
          ELSE /\ stack' = SetTop([Top EXCEPT !.pc = IF r.val THEN "root_meta" ELSE "scandir"])
               /\ UNCHANGED <<outcome, result>>
    /\ UNCHANGED <<fs, listing, now, args, progress, deleted, call, ret, app>>

\* lines 266-304
RootMeta ==
    /\ Running("root_meta")
    /\ progress' = IF args.progress_callback
                   THEN Append(progress, <<Top.scan_path, 0>>) ELSE progress
    /\ LET p == EvaluateRoot(fs, now, args) IN
       IF SinkRaises \/ p.err # "ok" THEN Raise
       ELSE /\ stack' = SetTop([Top EXCEPT !.pc = "scandir",
                                           !.projects = Append(@, p.val)])
            /\ UNCHANGED <<outcome, result>>
    /\ UNCHANGED <<fs, listing, now, args, evaluated, deleted, call, ret, app>>

\* line 308, and line 379 when os.scandir raises
Scandir ==
    /\ Running("scandir")
    /\ stack' = SetTop(
         IF ScandirStatus(fs, args.scan_path, Top.scan_path) # "ok"
         THEN [Top EXCEPT !.pc = "return"]
         ELSE [Top EXCEPT !.pc = "loop",
                          !.entries = ScandirEntries(fs, listing, Top.scan_path)])
    /\ UNCHANGED <<fs, listing, now, args, outcome, result, progress, evaluated, deleted, call, ret, app>>

\* lines 308-324 for the next entry that is not skipped, then either the
\* recursive call of line 367 or the metadata of lines 326-364; an
\* exception of progress_callback (line 321) or is_project_directory (line
\* 324) is inside the try: line 379 catches the OSError family
Loop ==
    /\ Running("loop")
    /\ LET todo == SkipEntries(Top.entries, args.ignore_patterns) IN
       IF todo = <<>>
       THEN /\ stack' = SetTop([Top EXCEPT !.pc = "return", !.entries = <<>>])
            /\ UNCHANGED <<progress, evaluated, outcome, result>>
       ELSE LET dir_name == Head(todo).name
                dir_path == Append(Top.scan_path, dir_name)
                r == is_project_directory(fs, args.scan_path, dir_path)
            IN /\ progress' = IF args.progress_callback
                              THEN Append(progress, <<dir_path, Len(Top.projects)>>)
                              ELSE progress
               /\ IF SinkRaises
                  THEN /\ UNCHANGED evaluated
                       /\ IF args.sink.exc \in OSErrors
                          THEN /\ stack' = SetTop([Top EXCEPT !.pc = "return"])
                               /\ UNCHANGED <<outcome, result>>
                          ELSE Raise
                  ELSE /\ evaluated' = Append(evaluated, dir_path)
                       /\ UNCHANGED <<outcome, result>>
                       /\ IF r.err # "ok"
                          THEN stack' = SetTop([Top EXCEPT !.pc = "return"])
                          ELSE IF r.val
                          THEN stack' = SetTop([Top EXCEPT !.pc = "child_meta", !.cur = dir_name,
                                                           !.entries = Tail(todo)])
                          ELSE stack' = Append(SetTop([Top EXCEPT !.pc = "in_call", !.cur = dir_name,
                                                                  !.entries = Tail(todo)]),
                                               Frame(dir_path, FALSE))
    /\ UNCHANGED <<fs, listing, now, args, deleted, call, ret, app>>

\* Mutant: a directory detected as a project is not descended into.
ChildMeta_NoDescend ==
    /\ Running("child_meta")
    /\ LET dir_path == Append(Top.scan_path, Top.cur)
           p == EvaluateChild(fs, now, args, dir_path, Top.cur)
       IN IF p.err = "ok"
          THEN /\ stack' = SetTop([Top EXCEPT !.pc = "loop", !.cur = <<>>,
                                              !.projects = Append(@, p.val)])
               /\ UNCHANGED <<outcome, result>>
          ELSE IF p.err \in OSErrors
          THEN /\ stack' = SetTop([Top EXCEPT !.pc = "return"])
               /\ UNCHANGED <<outcome, result>>
          ELSE Raise
    /\ UNCHANGED <<fs, listing, now, args, progress, evaluated, deleted, call, ret, app>>

\* lines 326-364, then the recursive call of line 367; line 379 catches
\* the OSError family only
ChildMeta ==
    /\ Running("child_meta")
    /\ LET dir_path == Append(Top.scan_path, Top.cur)
           p == EvaluateChild(fs, now, args, dir_path, Top.cur)
       IN IF p.err = "ok"
          THEN /\ stack' = Append(SetTop([Top EXCEPT !.pc = "in_call",
                                                     !.projects = Append(@, p.val)]),
                                  Frame(dir_path, FALSE))
               /\ UNCHANGED <<outcome, result>>
          ELSE IF p.err \in OSErrors
          THEN /\ stack' = SetTop([Top EXCEPT !.pc = "return"])
               /\ UNCHANGED <<outcome, result>>
          ELSE Raise
    /\ UNCHANGED <<fs, listing, now, args, progress, evaluated, deleted, call, ret, app>>

\* Mutant: the caller puts the sub-projects before its own list.
Return_ChildrenFirst ==
    /\ Running("return")
    /\ IF Len(stack) = 1
       THEN /\ stack' = <<>>
            /\ outcome' = "returned"
            /\ result' = Top.projects
       ELSE LET caller == stack[Len(stack) - 1] IN
            /\ stack' = [SubSeq(stack, 1, Len(stack) - 1) EXCEPT ![Len(stack) - 1] =
                           [caller EXCEPT !.pc = "loop", !.cur = <<>>,
                                          !.projects = Top.projects \o @]]
            /\ UNCHANGED <<outcome, result>>
    /\ UNCHANGED <<fs, listing, now, args, progress, evaluated, deleted, call, ret, app>>

\* line 383, and line 377 in the caller
Return ==
    /\ Running("return")
    /\ IF Len(stack) = 1
       THEN /\ stack' = <<>>
            /\ outcome' = "returned"
            /\ result' = Top.projects
       ELSE LET caller == stack[Len(stack) - 1] IN
            /\ stack' = [SubSeq(stack, 1, Len(stack) - 1) EXCEPT ![Len(stack) - 1] =
                           [caller EXCEPT !.pc = "loop", !.cur = <<>>,
                                          !.projects = @ \o Top.projects]]
            /\ UNCHANGED <<outcome, result>>
    /\ UNCHANGED <<fs, listing, now, args, progress, evaluated, deleted, call, ret, app>>

(***************************************************************************)
(* The trees scanned: directories tests/test_scanner.py builds (README     *)
(* projects, a git project, node_modules inside a project, nesting).       *)
(***************************************************************************)
NowBase == MaxAgeDays * TicksPerDay

T_RECENT == NowBase - 1

T_MID == NowBase - 2 * TicksPerDay

T_OLD == NowBase - MaxAgeDays * TicksPerDay

DirEntry(mtime) ==
    [type |-> "dir", mtime |-> mtime, size |-> 0, mode |-> "rwx"]

FileEntry(mtime, size) ==
    [type |-> "file", mtime |-> mtime, size |-> size, mode |-> "rwx"]

\* A symlink to a directory; nothing in the scan follows it.
LinkEntry ==
    [type |-> "link", mtime |-> T_OLD, size |-> 0, mode |-> "rwx"]

GitEntry(mtime, repo) ==
    [type |-> "dir", mtime |-> mtime, size |-> 0, mode |-> "rwx", repo |-> repo]

RepoNoRemote ==
    [raises |-> "none", at |-> "Repo", remotes |-> <<>>, dirty |-> FALSE, detached |-> FALSE,
     tracking |-> FALSE, ahead |-> FALSE]

RepoWithOrigin ==
    [raises |-> "none", at |-> "Repo",
     remotes |-> <<[name |-> "origin", urls |-> <<"git@host:repo">>]>>,
     dirty |-> FALSE, detached |-> FALSE, tracking |-> TRUE, ahead |-> FALSE]

N_README == <<"README", ".md">>
N_NOTES == <<"notes", ".txt">>
N_BIG == <<"big", ".bin">>
N_PACKAGE == <<"package", ".json">>
N_HOME == <<"home">>
N_SRC == <<"src">>
N_PKG == <<"pkg">>
N_NODE_MODULES == <<"node_modules">>
N_NODE_MODULES_CASE == <<"Node_Modules">>

\* What a directory holds besides its sub-directories.
Profiles ==
    [plain  |-> [mtime |-> T_MID, entries |-> <<>>],
     readme |-> [mtime |-> T_MID,
                 entries |-> (N_README :> FileEntry(T_RECENT, 2048))],
     git    |-> [mtime |-> T_OLD,
                 entries |-> (GIT_DIR :> GitEntry(T_OLD, RepoNoRemote))
                             @@ (N_BIG :> FileEntry(T_OLD, 11 * BYTES_PER_MB))],
     node   |-> [mtime |-> T_OLD,
                 entries |-> (GIT_DIR :> GitEntry(T_OLD, RepoWithOrigin))
                             @@ (N_PACKAGE :> FileEntry(T_OLD, 512))]]

DirWith(path, prof) ==
    (path :> DirEntry(prof.mtime))
    @@ [q \in {Append(path, n) : n \in DOMAIN prof.entries} |-> prof.entries[BaseName(q)]]

TreesAt(path, profs) == {DirWith(path, Profiles[p]) : p \in profs}

Absent == {<<>>}

Combine(A, B) == {a @@ b : a \in A, b \in B}

RootPath == <<N_HOME>>

SpecTrees ==
    LET nm == Append(RootPath, N_NODE_MODULES)
        nmc == Append(RootPath, N_NODE_MODULES_CASE)
        src == Append(RootPath, N_SRC)
    IN Combine(
         Combine(TreesAt(RootPath, {"plain", "readme", "git"}),
                 Absent \cup Combine(TreesAt(nm, {"plain", "readme", "node"}),
                                     Absent \cup TreesAt(Append(nm, N_PKG), {"readme"}))),
         Combine(Absent \cup TreesAt(nmc, {"readme"}),
                 Absent \cup {src :> LinkEntry}
                        \cup Combine(TreesAt(src, {"plain", "readme", "git"}),
                                     Absent \cup TreesAt(Append(src, N_NODE_MODULES),
                                                         {"readme"}))))

\* os.scandir's order is the directory's own; two of them.
Listings ==
    { <<GIT_DIR, N_NODE_MODULES, N_NODE_MODULES_CASE, N_PKG, N_SRC, N_README, N_BIG, N_PACKAGE, N_NOTES>>,
      <<N_NOTES, N_PACKAGE, N_BIG, N_README, N_SRC, N_PKG, N_NODE_MODULES_CASE, N_NODE_MODULES, GIT_DIR>> }

\* The behaviour of the caller's progress_callback: it raises `exc` when it
\* is invoked for the `at`-th time (never when at = 0).
QuietSink == [at |-> 0, exc |-> "none"]

ScanArgs(scan_path, ignore_patterns, active, dormant) ==
    [scan_path |-> scan_path, ignore_patterns |-> ignore_patterns,
     active_threshold |-> active, dormant_threshold |-> dormant,
     prunable_min_size_mb |-> Rat(10, 1), prunable_max_size_mb |-> Rat(1, 1),
     progress_callback |-> TRUE, sink |-> QuietSink]

NoCall == [fn |-> "none"]

\* No application object exists: the functions are called directly.
NoApp == [kind |-> "none"]

NotDone == [done |-> FALSE]

Done(v) == [done |-> TRUE, val |-> v]

InitScanState ==
    /\ stack = <<>>
    /\ outcome = "idle"
    /\ result = <<>>
    /\ progress = <<>>
    /\ evaluated = <<>>
    /\ deleted = {}

Init ==
    /\ fs \in SpecTrees
    /\ listing \in Listings
    /\ now = NowBase + 1
    /\ args \in {ScanArgs(RootPath, ip, th[1], th[2]) :
                   ip \in {<<>>, <<N_NODE_MODULES>>},
                   th \in {<<1, 3>>, <<0, 1>>}}
    /\ InitScanState
    /\ app = NoApp
    /\ call = NoCall
    /\ ret = NotDone

Next ==
    \/ CallScan
    \/ CheckRoot
    \/ RootMeta
    \/ Scandir
    \/ Loop
    \/ ChildMeta
    \/ Return

Spec == Init /\ [][Next]_vars

(***************************************************************************)
(* The scan beside filesystem trouble: directories the scanning user may   *)
(* not list or search, a root that is no directory, and a concurrent       *)
(* process that removes directories while the scan runs.                   *)
(***************************************************************************)
WithMode(f, p, mode) == [f EXCEPT ![p] = [@ EXCEPT !.mode = mode]]

FaultBaseTrees ==
    LET src == Append(RootPath, N_SRC)
        pkg == Append(RootPath, N_PKG)
    IN Combine(
         Combine(TreesAt(RootPath, {"plain", "readme"}),
                 Combine(TreesAt(src, {"plain", "readme"}),
                         Absent \cup TreesAt(Append(src, N_PKG), {"readme"}))),
         Absent \cup TreesAt(pkg, {"readme"}))

FaultTrees ==
    FaultBaseTrees
    \cup UNION {{WithMode(f, p, m) : p \in RealDirs(f), m \in {"-wx", "rw-"}} : f \in FaultBaseTrees}
    \cup {<<>>, RootPath :> FileEntry(T_MID, 1)}

\* Faulty trees are scanned with valid thresholds; healthy trees also with
\* a negative threshold.
InitFault ==
    /\ \/ /\ fs \in FaultTrees
          /\ args = ScanArgs(RootPath, <<>>, 1, 3)
       \/ /\ fs \in FaultBaseTrees
          /\ args \in {ScanArgs(RootPath, <<>>, 0 - 1, 3), ScanArgs(RootPath, <<>>, 1, 0 - 1)}
    /\ listing \in Listings
    /\ now = NowBase + 1
    /\ InitScanState
    /\ app = NoApp
    /\ call = NoCall
    /\ ret = NotDone

\* Healthy trees and valid arguments: only the concurrent process disturbs.
InitRace ==
    /\ fs \in FaultBaseTrees
    /\ args = ScanArgs(RootPath, <<>>, 1, 3)
    /\ listing \in Listings
    /\ now = NowBase + 1
    /\ InitScanState
    /\ app = NoApp
    /\ call = NoCall
    /\ ret = NotDone

\* shutil.rmtree(p) or unlink(p) by another process, while the scan runs.
Delete(p) ==
    /\ outcome = "running"
    /\ Cardinality(deleted) < MaxDeletes
    /\ p \in DOMAIN fs
    /\ fs' = [q \in {x \in DOMAIN fs : ~IsPrefix(p, x)} |-> fs[q]]
    /\ deleted' = deleted \cup {p}
    /\ UNCHANGED <<listing, now, args, stack, outcome, result, progress, evaluated, call, ret, app>>

DeleteSome == \E p \in DOMAIN fs : Delete(p)

NextFault ==
    \/ Next
    \/ DeleteSome

SpecFault == InitFault /\ [][NextFault]_vars

SpecRace == InitRace /\ [][NextFault]_vars

(***************************************************************************)
(* The scan with a progress sink that raises: the CLI's sink prints to     *)
(* stdout (BrokenPipeError when the reader is gone) and Ctrl-C raises      *)
(* KeyboardInterrupt in whatever code is running.                          *)
(***************************************************************************)
SinkExceptions == {EPIPE, "KeyboardInterrupt"}

InitSink ==
    /\ fs \in FaultBaseTrees
    /\ args \in {[ScanArgs(RootPath, <<>>, 1, 3) EXCEPT !.sink = [at |-> k, exc |-> e]] :
                   k \in 1..MaxSinkCalls, e \in SinkExceptions}
    /\ listing \in Listings
    /\ now = NowBase + 1
    /\ InitScanState
    /\ app = NoApp
    /\ call = NoCall
    /\ ret = NotDone

SpecSink == InitSink /\ [][Next]_vars

(***************************************************************************)
(* The same scan run again later on the unchanged tree, as the TUI's       *)
(* refresh does: the first list is kept for comparison.                    *)
(***************************************************************************)
InitRescan ==
    /\ fs \in FaultBaseTrees
    /\ args = ScanArgs(RootPath, <<>>, 1, 3)
    /\ listing \in Listings
    /\ now = NowBase + 1
    /\ InitScanState
    /\ app = NoApp
    /\ call = NoCall
    /\ ret = NotDone

Rescan ==
    /\ outcome = "returned"
    /\ call = NoCall
    /\ \E dt \in 0..(MaxWaitDays * TicksPerDay) : now' = now + dt
    /\ call' = [fn |-> "scan_for_projects", first |-> result, first_now |-> now]
    /\ stack' = <<>>
    /\ outcome' = "idle"
    /\ result' = <<>>
    /\ progress' = <<>>
    /\ evaluated' = <<>>
    /\ UNCHANGED <<fs, listing, args, deleted, ret, app>>

NextRescan ==
    \/ Next
    \/ Rescan

SpecRescan == InitRescan /\ [][NextRescan]_vars

(***************************************************************************)
(* Trees with directory symlinks: home/pkg -> home/src (a sibling) and     *)
(* home/src/pkg -> home (an ancestor, a cycle for whoever follows it).     *)
(***************************************************************************)
LinkTo(target) ==
    [type |-> "link", mtime |-> T_RECENT, size |-> 0, mode |-> "rwx", target |-> target]

LinkTrees ==
    LET src == Append(RootPath, N_SRC)
        pkg == Append(RootPath, N_PKG)
    IN Combine(
         Combine(TreesAt(RootPath, {"plain", "readme"}),
                 Combine(TreesAt(src, {"plain", "readme"}),
                         Absent \cup {Append(src, N_PKG) :> LinkTo(RootPath)}
                                \cup TreesAt(Append(src, N_PKG), {"readme"}))),
         Absent \cup {pkg :> LinkTo(src)} \cup TreesAt(pkg, {"readme"}))

InitLinks ==
    /\ fs \in LinkTrees
    /\ args = ScanArgs(RootPath, <<>>, 1, 3)
    /\ listing \in Listings
    /\ now = NowBase + 1
    /\ InitScanState
    /\ app = NoApp
    /\ call = NoCall
    /\ ret = NotDone

SpecLinks == InitLinks /\ [][Next]_vars

(***************************************************************************)
(* A scan whose root directory bears a name that is among the ignore       *)
(* patterns given to it.                                                   *)
(***************************************************************************)
InitIgnoredRoot ==
    /\ fs \in SpecTrees
    /\ listing \in Listings
    /\ now = NowBase + 1
    /\ args \in {ScanArgs(RootPath, ip, 1, 3) :
                   ip \in {<<N_HOME>>, <<N_NODE_MODULES, N_HOME>>}}
    /\ InitScanState
    /\ app = NoApp
    /\ call = NoCall
    /\ ret = NotDone

SpecIgnoredRoot == InitIgnoredRoot /\ [][Next]_vars

(***************************************************************************)
(* config.py.  A pattern, like a name, is a sequence of tokens; a line of  *)
(* an ignore file is a sequence of tokens among which " " and "\n" are     *)
(* whitespace.  Python lists are objects: `lists` maps the identity of     *)
(* each list to its content, identity 0 being the module-level             *)
(* DEFAULT_IGNORE_PATTERNS.                                                *)
(***************************************************************************)
DEFAULT_IGNORE_PATTERNS ==
    << <<"node_modules">>, <<".venv">>, <<"venv">>, <<"env">>, <<"__pycache__">>,
       <<".pytest_cache">>, <<"target">>, <<"build">>, <<"dist">>, <<".next">>,
       <<".nuxt">>, <<".gradle">>, <<".idea">> >>

Whitespace == {" ", "\n"}

RECURSIVE LStrip(_)
LStrip(line) ==
    IF line # <<>> /\ Head(line) \in Whitespace THEN LStrip(Tail(line)) ELSE line

RECURSIVE RStrip(_)
RStrip(line) ==
    IF line # <<>> /\ line[Len(line)] \in Whitespace
    THEN RStrip(SubSeq(line, 1, Len(line) - 1)) ELSE line

\* str.strip()
Strip(line) == RStrip(LStrip(line))

RECURSIVE ReadPatterns(_, _)
\* lines 138-142 and 147-151: the loop over the lines of an open file,
\* appending to patterns.
ReadPatterns(patterns, lines) ==
    IF lines = <<>> THEN patterns
    ELSE LET line == Strip(Head(lines)) IN
         ReadPatterns(IF line # <<>> /\ Head(line) # "#" THEN Append(patterns, line)
                      ELSE patterns,
                      Tail(lines))

\* Mutant: the configured list itself is appended to, without copy().
load_ignore_patterns_nocopy(lists, id, local, global) ==
    LET patterns == lists[id]
        after_local == IF IsNone(local) THEN patterns ELSE ReadPatterns(patterns, local[1])
        after_global == IF IsNone(global) THEN after_local
                        ELSE ReadPatterns(after_local, global[1])
    IN [ret |-> after_global, lists |-> [lists EXCEPT ![id] = after_global]]

\* Config.load_ignore_patterns on the Config whose scan.ignore_patterns is
\* the list `id`; local and global are the two .lpmignore files (None when
\* the file does not exist).  The value returned and the lists after.
load_ignore_patterns(lists, id, local, global) ==
    LET patterns == lists[id]
        after_local == IF IsNone(local) THEN patterns ELSE ReadPatterns(patterns, local[1])
        after_global == IF IsNone(global) THEN after_local
                        ELSE ReadPatterns(after_local, global[1])
    IN [ret |-> after_global, lists |-> lists]

\* Config.load: cls() gives scan.ignore_patterns a fresh copy of the
\* defaults (line 37); the ignore_patterns of the TOML file, if the file
\* exists and has the key, are appended to it (line 97).
Config_load(lists, toml) ==
    LET id == Cardinality(DOMAIN lists)
        fresh == lists[0]
    IN [id |-> id,
        lists |-> [i \in 0..id |-> IF i < id THEN lists[i]
                                   ELSE IF IsNone(toml) THEN fresh ELSE fresh \o toml[1]]]

(***************************************************************************)
(* Configurations being loaded and asked for their ignore patterns, after  *)
(* tests/test_config.py.                                                   *)
(***************************************************************************)
IgnoreLines ==
    {<<"\n">>,
     <<"#", " Comment line", "\n">>,
     <<" ", "#", "indented", "\n">>,
     <<" ", "temp/", " ", "\n">>,
     <<"*.log">>}

IgnoreFiles(n) == {None} \cup {Some(ls) : ls \in UNION {[1..k -> IgnoreLines] : k \in 0..n}}

TomlPatterns == {None, Some(<< <<"custom_dir">>, <<"*.tmp">> >>)}

InitConfig ==
    /\ fs = <<>>
    /\ listing = <<>>
    /\ now = NowBase
    /\ args = ScanArgs(RootPath, <<>>, 1, 3)
    /\ InitScanState
    /\ call = NoCall
    /\ ret = NotDone
    /\ \E local \in IgnoreFiles(MaxLines), global \in IgnoreFiles(1) :
         app = [kind |-> "config",
                lists |-> [i \in {0} |-> DEFAULT_IGNORE_PATTERNS],
                configs |-> <<>>,
                local |-> local, global |-> global,
                loads |-> <<>>]

\* config = Config.load(path) or Config()
LoadConfig ==
    /\ app.kind = "config"
    /\ Len(app.configs) < MaxConfigs
    /\ \E toml \in TomlPatterns :
         LET r == Config_load(app.lists, toml) IN
         app' = [app EXCEPT !.lists = r.lists,
                            !.configs = Append(@, [id |-> r.id, toml |-> toml])]
    /\ UNCHANGED <<scanVars, call, ret>>

\* config.load_ignore_patterns(scan_root) on one of the configs
LoadIgnorePatterns ==
    /\ app.kind = "config"
    /\ Len(app.loads) < MaxLoads
    /\ \E c \in 1..Len(app.configs) :
         LET r == load_ignore_patterns(app.lists, app.configs[c].id, app.local, app.global) IN
         app' = [app EXCEPT !.lists = r.lists,
                            !.loads = Append(@, [config |-> c, result |-> r.ret])]
    /\ UNCHANGED <<scanVars, call, ret>>

NextConfig ==
    \/ LoadConfig
    \/ LoadIgnorePatterns

SpecConfig == InitConfig /\ [][NextConfig]_vars

(***************************************************************************)
(* app.py: LocalProjectManagerApp.  The paths the program holds are        *)
(* pathlib paths: an anchor ("/" for an absolute path, "" for a relative   *)
(* one) and the parts after it.  main() resolves the scan path (line       *)
(* 572), so every Project path it hands over is absolute; the constructor  *)
(* also accepts a relative scan path and the Projects scanned from it.     *)
(***************************************************************************)
PurePath(anchor, parts) == [anchor |-> anchor, parts |-> parts]

\* Path(s) for a string s that is one file name: a relative path.
PathOfName(name) == [anchor |-> "", parts |-> <<name>>]

FILTERS == <<"all", "active", "wip", "dormant", "stale", "prunable", "no_remote", "no_readme">>

Keeps(current_filter, p) ==
    CASE current_filter = "active" -> p.classification = ACTIVE
      [] current_filter = "wip" -> p.classification = WIP
      [] current_filter = "dormant" -> p.classification = DORMANT
      [] current_filter = "stale" -> p.classification = STALE
      [] current_filter = "prunable" -> p.is_prunable
      [] current_filter = "no_remote" -> IsNone(p.git_remote)
      [] current_filter = "no_readme" -> IsNone(p.readme_path)
      [] OTHER -> TRUE

filter_projects(projects, current_filter) ==
    SelectSeq(projects, LAMBDA p : Keeps(current_filter, p))

\* update_table: the table is cleared (the cursor returns to row 0) and
\* gets one row per filtered project, keyed by str(project.path), whose
\* first cell is project.name.
update_table(a) ==
    LET filtered == filter_projects(a.projects, a.current_filter) IN
    [a EXCEPT !.rows = [i \in 1..Len(filtered) |->
                          [key |-> PurePath(a.anchor, filtered[i].path),
                           cells |-> <<filtered[i].name, filtered[i].project_type>>]],
              !.cursor_row = 0]

\* get_row_at returns the cells of the row; [0] is the first cell, the
\* project's name.
get_selected_project(a) ==
    IF a.rows = <<>> THEN None
    ELSE LET row_key == a.rows[a.cursor_row + 1].cells[1]
             project_path == PathOfName(row_key)
             found == {i \in 1..Len(a.projects) :
                         PurePath(a.anchor, a.projects[i].path) = project_path}
         IN IF found = {} THEN None
            ELSE Some(a.projects[CHOOSE i \in found : \A j \in found : i <= j])

\* shutil.rmtree(path)
Rmtree(f, path) ==
    IF path \notin DOMAIN f THEN [ret |-> Err(ENOENT), fs |-> f]
    ELSE [ret |-> Ok(None),
          fs |-> [q \in {x \in DOMAIN f : ~IsPrefix(path, x)} |-> f[q]]]

\* readme_manager.py: delete_readme; removing a name updates the
\* directory's mtime.
delete_readme(f, nowT, readme_path) ==
    IF readme_path \notin DOMAIN f THEN [ret |-> Err(ENOENT), fs |-> f]
    ELSE [ret |-> Ok(None),
          fs |-> [q \in DOMAIN f \ {readme_path} |->
                    IF q = ParentOf(readme_path) THEN [f[q] EXCEPT !.mtime = nowT]
                    ELSE f[q]]]

\* Mutant: the callback does not look at the answer.
RunCallback_unconditional(f, nowT, dialog, confirmed) ==
    LET project == dialog.project IN
    CASE dialog.action = "create_readme" ->
           create_readme(f, nowT, project.path, project.name, project.project_type)
      [] dialog.action = "delete_readme" -> delete_readme(f, nowT, project.readme_path[1])
      [] OTHER -> Rmtree(f, project.path)

\* confirm_and_create, confirm_and_delete, confirm_and_prune up to the
\* call of action_refresh: ret is "skip" when nothing was attempted.
RunCallback(f, nowT, dialog, confirmed) ==
    LET project == dialog.project IN
    IF ~confirmed THEN [ret |-> Err("skip"), fs |-> f]
    ELSE CASE dialog.action = "create_readme" ->
                create_readme(f, nowT, project.path, project.name, project.project_type)
           [] dialog.action = "delete_readme" ->
                delete_readme(f, nowT, project.readme_path[1])
           [] OTHER -> Rmtree(f, project.path)

(***************************************************************************)
(* The program from main(): the scan, then the TUI on its result.  `app`   *)
(* holds the App object: phase "prescan" (main() before app.run()),        *)
(* "main" (waiting for a key), "refreshing" (action_refresh inside         *)
(* scan_for_projects), or "stopped" (an exception left a handler).         *)
(***************************************************************************)
TuiTrees ==
    LET src == Append(RootPath, N_SRC)
    IN Combine(TreesAt(RootPath, {"readme", "git"}),
               Absent \cup TreesAt(src, {"readme", "git"}))

InitTui ==
    /\ fs \in TuiTrees
    /\ listing \in Listings
    /\ now = NowBase + 1
    /\ args = ScanArgs(RootPath, <<>>, 1, 3)
    /\ InitScanState
    /\ call = NoCall
    /\ ret = NotDone
    /\ \E anchor \in {"/", ""} :
         app = [kind |-> "tui", phase |-> "prescan", anchor |-> anchor,
                projects |-> <<>>, current_filter |-> "all",
                rows |-> <<>>, cursor_row |-> 0, screens |-> <<>>,
                event |-> [key |-> "none"]]

OnMain == app.kind = "tui" /\ app.phase = "main" /\ app.screens = <<>>

\* LocalProjectManagerApp(scan_path, projects) and on_mount
Mount ==
    /\ app.kind = "tui" /\ app.phase = "prescan"
    /\ outcome = "returned"
    /\ app' = update_table([app EXCEPT !.phase = "main", !.projects = result,
                                       !.event = [key |-> "launch"]])
    /\ UNCHANGED <<scanVars, call, ret>>

\* action_refresh up to the call of scan_for_projects (lines 203-213)
StartRefresh(a) ==
    /\ app' = [a EXCEPT !.phase = "refreshing", !.projects = <<>>, !.rows = <<>>,
                        !.cursor_row = 0]
    /\ args' = [args EXCEPT !.progress_callback = FALSE]
    /\ stack' = <<>>
    /\ outcome' = "idle"
    /\ result' = <<>>
    /\ progress' = <<>>
    /\ evaluated' = <<>>

\* action_refresh from the return of scan_for_projects (lines 213-224)
RefreshDone ==
    /\ app.kind = "tui" /\ app.phase = "refreshing"
    /\ outcome \in {"returned", "raised"}
    /\ app' = IF outcome = "returned"
              THEN update_table([app EXCEPT !.phase = "main", !.projects = result])
              ELSE [app EXCEPT !.phase = "stopped"]
    /\ UNCHANGED <<scanVars, call, ret>>

\* key "r"
KeyRefresh ==
    /\ OnMain
    /\ StartRefresh([app EXCEPT !.event = [key |-> "r"]])
    /\ UNCHANGED <<fs, listing, now, deleted, call, ret>>

\* key "f": action_cycle_filter
KeyFilter ==
    /\ OnMain
    /\ LET i == CHOOSE k \in 1..Len(FILTERS) : FILTERS[k] = app.current_filter IN
       app' = update_table([app EXCEPT !.current_filter = FILTERS[(i % Len(FILTERS)) + 1],
                                       !.event = [key |-> "f"]])
    /\ UNCHANGED <<scanVars, call, ret>>

\* keys "down" and "up", handled by the DataTable
KeyMove ==
    /\ OnMain
    /\ \E r \in {app.cursor_row - 1, app.cursor_row + 1} :
         /\ r >= 0 /\ r < Len(app.rows)
         /\ app' = [app EXCEPT !.cursor_row = r, !.event = [key |-> "move"]]
    /\ UNCHANGED <<scanVars, call, ret>>

\* keys "c", "d", "p": action_create_readme, action_delete_readme and
\* action_prune_project up to push_screen
KeyAction ==
    /\ OnMain
    /\ \E action \in {"create_readme", "delete_readme", "prune_project"} :
         LET project == get_selected_project(app)
             ev == [key |-> action, selected |-> project]
             opens == /\ ~IsNone(project)
                      /\ action = "create_readme" => IsNone(project[1].readme_path)
                      /\ action = "delete_readme" => ~IsNone(project[1].readme_path)
         IN app' = IF opens
                   THEN [app EXCEPT !.event = ev,
                                    !.screens = <<[action |-> action, project |-> project[1]]>>]
                   ELSE [app EXCEPT !.event = ev]
    /\ UNCHANGED <<scanVars, call, ret>>

\* Button "Yes" or "No" of the ConfirmDialog: dismiss(confirmed), then the
\* callback given to push_screen
Answer ==
    /\ app.kind = "tui" /\ app.phase = "main" /\ app.screens # <<>>
    /\ \E confirmed \in BOOLEAN :
         LET dialog == app.screens[1]
             r == RunCallback(fs, now, dialog, confirmed)
             a == [app EXCEPT !.screens = <<>>,
                              !.event = [key |-> IF confirmed THEN "yes" ELSE "no",
                                         dialog |-> dialog]]
         IN /\ fs' = r.fs
            /\ IF r.ret.err = "ok"
               THEN StartRefresh(a)
               ELSE /\ app' = a
                    /\ UNCHANGED <<args, stack, outcome, result, progress, evaluated>>
    /\ UNCHANGED <<listing, now, deleted, call, ret>>

\* An application key pressed while the ConfirmDialog is the active screen:
\* the handler's query_one(DataTable) finds no table on that screen.
KeyUnderDialog ==
    /\ app.kind = "tui" /\ app.phase = "main" /\ app.screens # <<>>
    /\ app' = [app EXCEPT !.phase = "stopped", !.event = [key |-> "NoMatches"]]
    /\ UNCHANGED <<scanVars, call, ret>>

NextTui ==
    \/ Next
    \/ Mount
    \/ RefreshDone
    \/ KeyRefresh
    \/ KeyFilter
    \/ KeyMove
    \/ KeyAction
    \/ Answer
    \/ KeyUnderDialog

SpecTui == InitTui /\ [][NextTui]_vars

(***************************************************************************)
(* Direct calls of the pure functions, as the unit tests make them: the    *)
(* inputs are drawn first, one action applies the function.                *)
(***************************************************************************)
RECURSIVE KSubsets(_, _)
\* The subsets of S with at most k elements.
KSubsets(S, k) ==
    IF k = 0 THEN {{}}
    ELSE KSubsets(S, k - 1) \cup {T \cup {x} : T \in KSubsets(S, k - 1), x \in S}

N_APP_CSPROJ == <<"App", ".csproj">>
N_APP_SLN == <<"App", ".sln">>

EntryNames ==
    {m[2] : m \in Range(FlattenMarkers(PROJECT_TYPE_MARKERS))}
    \cup Range(README_NAMES)
    \cup {GIT_DIR, N_NOTES, N_APP_CSPROJ, N_APP_SLN}

\* One readable directory holding the entries S, those of D as directories
\* (a README name may be a directory: find_readme asks is_file()).
DirHolding(S, D) ==
    (RootPath :> DirEntry(T_MID))
    @@ [q \in {Append(RootPath, n) : n \in S} |->
          IF BaseName(q) \in D THEN DirEntry(T_MID) ELSE FileEntry(T_MID, 1)]

PureDirs ==
    UNION {{DirHolding(S, D) : D \in SUBSET (S \cap Range(README_NAMES))} :
             S \in KSubsets(EntryNames, MaxEntries)}

ClassifyCalls ==
    [fn : {"classify_project"},
     nowT : {NowBase},
     last_modified : 0..(NowBase + TicksPerDay),
     has_git_remote : BOOLEAN, has_readme : BOOLEAN,
     active_threshold : (0 - 1)..MaxAgeDays,
     dormant_threshold : (0 - 1)..MaxAgeDays]

\* Sizes in steps of half a megabyte, thresholds in halves of a megabyte.
PruneCalls ==
    [fn : {"is_prunable"},
     classification : Classifications,
     has_git_remote : BOOLEAN,
     size_bytes : {k * (BYTES_PER_MB \div 2) : k \in 0..(2 * MaxSizeMb)},
     min_half_mb : {2, 3, 4},
     max_half_mb : {2, 3, 4}]

DirCalls ==
    [fn : {"detect_project_type", "is_project_directory", "find_readme"}, path : {RootPath}]

\* Repositories as tests/test_git_utils.py builds them: remotes added in
\* any order (one URL each), dirty or clean, head detached or on a branch
\* with or without a tracking upstream, commits ahead or not; and the
\* failures the handlers of get_git_info name, at the operation they guard.
RemoteNames == {"origin", "upstream", "backup"}

UrlOf(name) ==
    CASE name = "origin" -> "https://github.com/user/test.git"
      [] name = "upstream" -> "https://github.com/upstream/test.git"
      [] OTHER -> "https://example.com/backup.git"

RemoteLists ==
    {[i \in 1..Len(ns) |-> [name |-> ns[i], urls |-> <<UrlOf(ns[i])>>]] :
        ns \in {x \in UNION {[1..n -> RemoteNames] : n \in 0..MaxRemotes} :
                   \A i, j \in 1..Len(x) : x[i] = x[j] => i = j}}

GitFailures ==
    {[raises |-> "none", at |-> "Repo"],
     [raises |-> "InvalidGitRepositoryError", at |-> "Repo"],
     [raises |-> "GitCommandError", at |-> "Repo"],
     [raises |-> "GitCommandError", at |-> "is_dirty"],
     [raises |-> "GitCommandError", at |-> "iter_commits"],
     [raises |-> "ValueError", at |-> "iter_commits"]}

Repos ==
    {[raises |-> x.raises, at |-> x.at, remotes |-> r, dirty |-> d[1], detached |-> d[2],
      tracking |-> d[3], ahead |-> d[4]] :
        x \in GitFailures, r \in RemoteLists, d \in BOOLEAN \X BOOLEAN \X BOOLEAN \X BOOLEAN}

\* A directory with a repository, with a .git that is a plain file, or
\* without .git.
GitDirs ==
    {(RootPath :> DirEntry(T_MID)) @@ (Append(RootPath, GIT_DIR) :> GitEntry(T_MID, repo)) :
        repo \in Repos}
    \cup {DirHolding({GIT_DIR}, {}), DirHolding({N_README}, {})}

GitCalls == [fn : {"get_git_info"}, path : {RootPath}]

\* Trees for the size and modification-time walks, after the directories of
\* TestGetDirectorySize and TestGetLastModified: files of different sizes
\* down to two levels below the directory, at most one directory the
\* caller may not list or search, at most one entry modified recently.
WalkFull ==
    LET src == Append(RootPath, N_SRC)
        deep == Append(src, N_PKG)
        pkg == Append(RootPath, N_PKG)
    IN (RootPath :> DirEntry(T_MID))
       @@ (Append(RootPath, N_NOTES) :> FileEntry(T_OLD, 524288))
       @@ (src :> DirEntry(T_OLD))
       @@ (Append(src, N_BIG) :> FileEntry(T_OLD, 2 * 524288))
       @@ (deep :> DirEntry(T_OLD))
       @@ (Append(deep, N_README) :> FileEntry(T_OLD, 4 * 524288))
       @@ (pkg :> DirEntry(T_OLD))
       @@ (Append(pkg, N_NOTES) :> FileEntry(T_OLD, 8 * 524288))

WalkShapes ==
    {[q \in S |-> WalkFull[q]] :
        S \in {T \in SUBSET DOMAIN WalkFull :
                 /\ RootPath \in T
                 /\ \A q \in T : q = RootPath \/ ParentOf(q) \in T}}

Touched(f, q) == [f EXCEPT ![q] = [@ EXCEPT !.mtime = T_RECENT]]

WalkTrees ==
    LET faulty == WalkShapes
                  \cup UNION {{WithMode(f, p, m) : p \in RealDirs(f), m \in {"-wx", "rw-"}} :
                                f \in WalkShapes}
    IN faulty \cup UNION {{Touched(f, q) : q \in DOMAIN f} : f \in faulty}

WalkCalls == [fn : {"get_directory_size", "get_last_modified"}, path : {RootPath}]

\* Project directories for create_readme, after TestCreateReadme: empty or
\* holding other files, with or without a README.md someone wrote (or a
\* directory of that name); and a directory that does not exist.
ExistingReadme ==
    [type |-> "file", mtime |-> T_OLD, size |-> 17, mode |-> "rwx",
     content |-> [template |-> "# Existing README", project_name |-> ""]]

ReadmeDirs ==
    {<<>>}
    \cup UNION {{DirHolding(S, {}),
                 DirHolding(S, {}) @@ (Append(RootPath, N_README) :> ExistingReadme),
                 DirHolding(S \cup {N_README}, {N_README})} :
                   S \in SUBSET {<<"readme", ".md">>, <<"README", ".txt">>, N_PACKAGE, N_NOTES}}

ReadmeCalls ==
    [fn : {"create_readme"}, path : {RootPath}, project_name : {"test-project", "node-app"},
     project_type : {m.type : m \in Range(PROJECT_TYPE_MARKERS)} \cup {UNKNOWN}]

InitPure ==
    /\ listing = <<>>
    /\ now = NowBase
    /\ args = ScanArgs(RootPath, <<>>, 1, 3)
    /\ InitScanState
    /\ app = NoApp
    /\ ret = NotDone
    /\ \/ fs = <<>> /\ call \in ClassifyCalls \cup PruneCalls
       \/ fs \in PureDirs /\ call \in DirCalls
       \/ fs \in GitDirs /\ call \in GitCalls
       \/ fs \in WalkTrees /\ call \in WalkCalls
       \/ fs \in ReadmeDirs /\ call \in ReadmeCalls

Pending(fn) == call.fn = fn /\ ~ret.done

ApplyClassify ==
    /\ Pending("classify_project")
    /\ ret' = Done(classify_project(call.nowT, call.last_modified, call.has_git_remote,
                                    call.has_readme, call.active_threshold,
                                    call.dormant_threshold))
    /\ UNCHANGED <<scanVars, call, app>>

ApplyPrunable ==
    /\ Pending("is_prunable")
    /\ ret' = Done(is_prunable(call.classification, call.has_git_remote,
                               Rat(call.size_bytes, BYTES_PER_MB),
                               Rat(call.min_half_mb, 2), Rat(call.max_half_mb, 2)))
    /\ UNCHANGED <<scanVars, call, app>>

ApplyDetect ==
    /\ Pending("detect_project_type")
    /\ ret' = Done(detect_project_type(fs, call.path, call.path))
    /\ UNCHANGED <<scanVars, call, app>>

ApplyIsProject ==
    /\ Pending("is_project_directory")
    /\ ret' = Done(is_project_directory(fs, call.path, call.path))
    /\ UNCHANGED <<scanVars, call, app>>

ApplyFindReadme ==
    /\ Pending("find_readme")
    /\ ret' = Done(find_readme(fs, call.path, call.path))
    /\ UNCHANGED <<scanVars, call, app>>

ApplyGitInfo ==
    /\ Pending("get_git_info")
    /\ ret' = Done(get_git_info(fs, call.path, call.path))
    /\ UNCHANGED <<scanVars, call, app>>

ApplySize ==
    /\ Pending("get_directory_size")
    /\ ret' = Done(get_directory_size(fs, call.path, call.path))
    /\ UNCHANGED <<scanVars, call, app>>

ApplyLastModified ==
    /\ Pending("get_last_modified")
    /\ ret' = Done(get_last_modified(fs, call.path, call.path))
    /\ UNCHANGED <<scanVars, call, app>>

ApplyCreateReadme ==
    /\ Pending("create_readme")
    /\ LET r == create_readme(fs, now, call.path, call.project_name, call.project_type) IN
       /\ ret' = Done(r.ret)
       /\ fs' = r.fs
    /\ UNCHANGED <<listing, now, args, stack, outcome, result, progress, evaluated, deleted, call, app>>

NextPure ==
    \/ ApplyClassify
    \/ ApplyPrunable
    \/ ApplyDetect
    \/ ApplyIsProject
    \/ ApplyFindReadme
    \/ ApplyGitInfo
    \/ ApplySize
    \/ ApplyLastModified
    \/ ApplyCreateReadme

SpecPure == InitPure /\ [][NextPure]_vars

(***************************************************************************)
(* Vocabulary of the properties.                                           *)
(***************************************************************************)
ResultPaths == {result[i].path : i \in 1..Len(result)}

ProgressPaths == {progress[i][1] : i \in 1..Len(progress)}

EvaluatedPaths == Range(evaluated)

FramePaths == {stack[i].scan_path : i \in 1..Len(stack)}

\* Every Project built so far: those in the lists of the running calls and
\* those returned.
AllProjects ==
    {result[i] : i \in 1..Len(result)}
    \cup UNION {{stack[k].projects[i] : i \in 1..Len(stack[k].projects)} : k \in 1..Len(stack)}

IgnoreSet == Range(args.ignore_patterns)

\* D is the root, or every step from the root down to D is a real
\* directory whose name is not ignored.
Reachable(f, D) ==
    \/ D = args.scan_path
    \/ /\ IsProperPrefix(args.scan_path, D)
       /\ \A k \in (Len(args.scan_path) + 1)..Len(D) :
            /\ SubSeq(D, 1, k) \in RealDirs(f)
            /\ D[k] \notin IgnoreSet

IsProject(f, D) ==
    LET r == is_project_directory(f, args.scan_path, D) IN r.err = "ok" /\ r.val

ExpectedPaths(f) == {D \in RealDirs(f) : Reachable(f, D) /\ IsProject(f, D)}

(***************************************************************************)
(* C1: on a tree without filesystem errors, the paths a scan returns are   *)
(* exactly the project directories that are the root or are reachable from *)
(* it through real, non-ignored directories; projects inside projects are  *)
(* returned too.                                                           *)
(***************************************************************************)
C1_ResultIsReachableProjects ==
    outcome = "returned" => ResultPaths = ExpectedPaths(fs)

C1_Witness_NestedProjects ==
    /\ outcome = "returned"
    /\ \E P, Q \in ResultPaths : IsProperPrefix(P, Q)
    /\ \E D \in RealDirs(fs) : IsProject(fs, D) /\ ~Reachable(fs, D)

(***************************************************************************)
(* C2: a child directory whose name equals an ignore pattern is never      *)
(* evaluated, reported to the progress sink, descended into or returned,   *)
(* nor is anything below it; a name that differs from a pattern only in    *)
(* case is visited like any other directory.                               *)
(***************************************************************************)
C2_IgnoredNeverVisited ==
    /\ \A p \in EvaluatedPaths \cup ProgressPaths \cup ResultPaths \cup FramePaths :
         \A k \in (Len(args.scan_path) + 1)..Len(p) : p[k] \notin IgnoreSet
    /\ outcome = "returned" =>
         \A D \in RealDirs(fs) :
            ( /\ IsProperPrefix(args.scan_path, D)
              /\ Reachable(fs, ParentOf(D))
              /\ BaseName(D) \notin IgnoreSet
              /\ Lower(BaseName(D)) \in {Lower(x) : x \in IgnoreSet} )
            => /\ D \in EvaluatedPaths
               /\ D \in ProgressPaths
               /\ IsProject(fs, D) => D \in ResultPaths

C2_Witness_IgnoredProjectSubtree ==
    /\ outcome = "returned"
    /\ \E D, E \in RealDirs(fs) :
         /\ BaseName(D) \in IgnoreSet
         /\ Reachable(fs, ParentOf(D))
         /\ IsProject(fs, D)
         /\ IsProperPrefix(D, E)
         /\ IsProject(fs, E)
         /\ {D, E} \cap (ResultPaths \cup EvaluatedPaths) = {}
    /\ \E C \in ResultPaths :
         BaseName(C) \notin IgnoreSet /\ Lower(BaseName(C)) \in {Lower(x) : x \in IgnoreSet}

(***************************************************************************)
(* C3: every Project a scan builds, in the root branch or the child        *)
(* branch, carries the classification classify_project gives for its own   *)
(* last_modified, remote and README under the scan's thresholds, and the   *)
(* prunable flag is_prunable gives for that classification, its remote and *)
(* its size.                                                               *)
(***************************************************************************)
DerivedFieldsConsistent(p) ==
    /\ p.classification = classify_project(now, p.last_modified, ~IsNone(p.git_remote),
                              ~IsNone(p.readme_path), args.active_threshold,
                              args.dormant_threshold)
    /\ p.is_prunable = is_prunable(p.classification, ~IsNone(p.git_remote), p.size_mb,
                              args.prunable_min_size_mb, args.prunable_max_size_mb)

C3_DerivedFieldsArePure ==
    \A p \in AllProjects : DerivedFieldsConsistent(p)

C3_Witness_RootAndChildDerived ==
    /\ outcome = "returned"
    /\ \E p, q \in AllProjects :
         /\ p.path = args.scan_path
         /\ q.path # args.scan_path
         /\ q.is_prunable
         /\ q.has_git
         /\ p.classification # q.classification

(***************************************************************************)
(* C4: classify_project floors the elapsed time to whole days and returns  *)
(* Active or Work-in-Progress up to and including the active threshold     *)
(* (Active exactly when there is a remote or a README), Dormant above it   *)
(* up to and including the dormant threshold, Stale otherwise.             *)
(***************************************************************************)
\* The whole days in `ticks`: the integer a with a days <= ticks < a+1 days.
WholeDays(ticks) ==
    CHOOSE a \in (0 - MaxAgeDays - 2)..(MaxAgeDays + 2) :
        a * TicksPerDay <= ticks /\ ticks < (a + 1) * TicksPerDay

ClaimedClassification(c) ==
    LET age == WholeDays(c.nowT - c.last_modified) IN
    CASE age <= c.active_threshold /\ (c.has_git_remote \/ c.has_readme) -> ACTIVE
      [] age <= c.active_threshold /\ ~(c.has_git_remote \/ c.has_readme) -> WIP
      [] c.active_threshold < age /\ age <= c.dormant_threshold -> DORMANT
      [] OTHER -> STALE

C4_ClassifyByAge ==
    (call.fn = "classify_project" /\ ret.done) => ret.val = ClaimedClassification(call)

C4_Witness_DormantBoundaryFloored ==
    /\ call.fn = "classify_project"
    /\ ret.done
    /\ (call.nowT - call.last_modified) % TicksPerDay # 0
    /\ WholeDays(call.nowT - call.last_modified) = call.active_threshold
    /\ call.active_threshold = call.dormant_threshold
    /\ ~call.has_git_remote
    /\ ~call.has_readme
    /\ ret.val = WIP

(***************************************************************************)
(* C5: is_prunable is true exactly for a Stale project without a remote    *)
(* whose size is above the large threshold or below the tiny one; a size   *)
(* equal to a threshold, or between them when tiny <= large, is not        *)
(* prunable.                                                               *)
(***************************************************************************)
\* Sizes and thresholds compared in units of half a byte-megabyte.
SizeAbove(c, half_mb) == 2 * c.size_bytes > half_mb * BYTES_PER_MB

SizeBelow(c, half_mb) == 2 * c.size_bytes < half_mb * BYTES_PER_MB

C5_PrunableIff ==
    (call.fn = "is_prunable" /\ ret.done) =>
        /\ ret.val <=> /\ call.classification = STALE
                       /\ ~call.has_git_remote
                       /\ SizeAbove(call, call.min_half_mb) \/ SizeBelow(call, call.max_half_mb)
        /\ ( /\ call.max_half_mb <= call.min_half_mb
             /\ ~SizeBelow(call, call.max_half_mb)
             /\ ~SizeAbove(call, call.min_half_mb) ) => ~ret.val
        /\ (call.has_git_remote \/ call.classification # STALE) => ~ret.val

C5_Witness_SizeAtLargeThreshold ==
    /\ call.fn = "is_prunable"
    /\ ret.done
    /\ call.classification = STALE
    /\ ~call.has_git_remote
    /\ 2 * call.size_bytes = call.min_half_mb * BYTES_PER_MB
    /\ call.max_half_mb < call.min_half_mb
    /\ ~ret.val

(***************************************************************************)
(* C6: is_project_directory is true exactly when the directory holds a     *)
(* .git entry, or one of the README names as a regular file, or            *)
(* detect_project_type finds a type other than Unknown.                    *)
(***************************************************************************)
NamesIn(f, path) == {BaseName(q) : q \in Children(f, path)}

FileNamesIn(f, path) == {BaseName(q) : q \in {x \in Children(f, path) : f[x].type = "file"}}

C6_IsProjectIff ==
    (call.fn = "is_project_directory" /\ ret.done) =>
        /\ ret.val.err = "ok"
        /\ ret.val.val <=> \/ GIT_DIR \in NamesIn(fs, call.path)
                           \/ FileNamesIn(fs, call.path) \cap Range(README_NAMES) # {}
                           \/ detect_project_type(fs, call.path, call.path).val # UNKNOWN

C6_Witness_ReadmeOnly ==
    /\ call.fn = "is_project_directory"
    /\ ret.done
    /\ ret.val.val
    /\ NamesIn(fs, call.path) = {<<"readme", ".txt">>, N_NOTES}

(***************************************************************************)
(* C7: detect_project_type returns the first type, in the order Python,    *)
(* Node.js, Rust, Go, Java, PHP, C#/.NET, Ruby, one of whose markers       *)
(* (pyproject.toml, ..., *.csproj, *.sln, Gemfile) is among the direct     *)
(* entries, and Unknown exactly when no entry is a marker.                 *)
(***************************************************************************)
\* The marker table as specified: the C#/.NET markers are the globs.
ClaimedMarkers ==
    [i \in 1..Len(PROJECT_TYPE_MARKERS) |->
        IF PROJECT_TYPE_MARKERS[i].type = CSHARP
        THEN [type |-> CSHARP, markers |-> << <<"*", ".csproj">>, <<"*", ".sln">> >>]
        ELSE PROJECT_TYPE_MARKERS[i]]

HasMarker(names, row) ==
    \E n \in names : \E m \in Range(row.markers) : GlobMatch(n, m)

ClaimedType(names) ==
    IF \E i \in 1..Len(ClaimedMarkers) : HasMarker(names, ClaimedMarkers[i])
    THEN ClaimedMarkers[CHOOSE i \in 1..Len(ClaimedMarkers) :
                          /\ HasMarker(names, ClaimedMarkers[i])
                          /\ \A j \in 1..(i - 1) : ~HasMarker(names, ClaimedMarkers[j])].type
    ELSE UNKNOWN

C7_DetectFirstMarkedType ==
    (call.fn = "detect_project_type" /\ ret.done) =>
        ret.val.val = ClaimedType(NamesIn(fs, call.path))

\* Where no *.csproj or *.sln entry is present, detect_project_type does
\* return the first marked type of the table.
Detect_PriorityAmongLiteralMarkers ==
    (call.fn = "detect_project_type" /\ ret.done
        /\ \A n \in NamesIn(fs, call.path) : n \notin {N_APP_CSPROJ, N_APP_SLN}) =>
        ret.val.val = ClaimedType(NamesIn(fs, call.path))

(***************************************************************************)
(* C8: when reading or evaluating one directory fails, only the subtree of *)
(* that directory is missing from the result: every project outside the    *)
(* failed (or removed) directories is still returned.                      *)
(***************************************************************************)
FailedDirs == {D \in RealDirs(fs) : fs[D].mode # "rwx"} \cup deleted

C8_OnlyFailedSubtreeMissing ==
    outcome = "returned" =>
        \A D \in ExpectedPaths(fs) :
            (\A F \in FailedDirs : ~IsPrefix(F, D)) => D \in ResultPaths

(***************************************************************************)
(* C9: whatever a concurrent process deletes while the scan runs, the scan *)
(* never raises; it returns a possibly partial list.                       *)
(***************************************************************************)
C9_ScanNeverRaises == outcome # "raised"

(***************************************************************************)
(* C10: a scan whose root is not an existing directory, or whose           *)
(* thresholds are negative, never returns normally.                        *)
(***************************************************************************)
C10_InvalidCallNeverReturns ==
    (outcome = "returned" /\ deleted = {}) =>
        /\ args.scan_path \in RealDirs(fs)
        /\ args.active_threshold >= 0
        /\ args.dormant_threshold >= 0

(***************************************************************************)
(* C11: once the progress sink has raised, whatever the exception, the     *)
(* scan stops: the exception leaves the top-level call, no further         *)
(* directory is reported or evaluated and no result is returned.           *)
(***************************************************************************)
SinkHasRaised == args.sink.at > 0 /\ Len(progress) >= args.sink.at

C11_SinkExceptionPropagates ==
    SinkHasRaised => (outcome = "raised" /\ Len(progress) = args.sink.at)

(***************************************************************************)
(* C12: the progress sink is called exactly once for every directory the   *)
(* scan visits (the root, project or not, and every real directory reached *)
(* through non-ignored real directories) and for nothing else; the count   *)
(* it receives is the number of projects the whole scan has found so far:  *)
(* counts never decrease, and the count reported for a project directory   *)
(* is the number of entries before its own in the result.                  *)
(***************************************************************************)
VisitedDirs == {D \in RealDirs(fs) : Reachable(fs, D)}

\* The projects found before the i-th call: those of the directories
\* reported earlier.
FoundBefore(i) ==
    {j \in 1..Len(result) : \E k \in 1..(i - 1) : progress[k][1] = result[j].path}

C12_ProgressOncePerDirWithTotal ==
    outcome = "returned" =>
        /\ ProgressPaths = VisitedDirs
        /\ \A i, k \in 1..Len(progress) : progress[i][1] = progress[k][1] => i = k
        /\ \A i \in 1..Len(progress) :
             /\ progress[i][2] = Cardinality(FoundBefore(i))
             /\ i > 1 => progress[i - 1][2] <= progress[i][2]
             /\ \A j \in 1..Len(result) :
                  result[j].path = progress[i][1] => progress[i][2] = j - 1

(***************************************************************************)
(* C13: no two entries of a scan result have the same path.  The root is   *)
(* evaluated for project-ness once, first, by the top-level call; every    *)
(* other directory is evaluated at most once: the recursive call that      *)
(* descends into a directory does not evaluate it again.                   *)
(***************************************************************************)
C13_NoDirectoryEvaluatedTwice ==
    /\ \A i, j \in 1..Len(evaluated) : evaluated[i] = evaluated[j] => i = j
    /\ \A i \in 1..Len(evaluated) : evaluated[i] = args.scan_path <=> i = 1
    /\ \A k \in 1..Len(stack) :
         \A i, j \in 1..Len(stack[k].projects) :
            stack[k].projects[i].path = stack[k].projects[j].path => i = j
    /\ outcome = "returned" =>
         /\ Len(evaluated) >= 1
         /\ \A i, j \in 1..Len(result) : result[i].path = result[j].path => i = j

C13_Witness_ProjectsThreeDeep ==
    /\ outcome = "returned"
    /\ \E P, Q \in ResultPaths :
         /\ IsProperPrefix(args.scan_path, P)
         /\ IsProperPrefix(P, Q)
         /\ args.scan_path \in ResultPaths
    /\ Len(evaluated) > Len(result)

(***************************************************************************)
(* C14: the result is in depth-first pre-order.  A project precedes the    *)
(* projects inside it, the root's entry (if any) is first, the entries of  *)
(* one directory's subtree are contiguous, and of two entries in different *)
(* subtrees of a directory the one in the earlier-listed child comes       *)
(* first.                                                                  *)
(***************************************************************************)
ListingPos(name) == CHOOSE i \in 1..Len(listing) : listing[i] = name

\* The first index at which paths p and q differ (neither is a prefix of
\* the other).
ForkIndex(p, q) ==
    CHOOSE k \in 1..Len(p) : p[k] # q[k] /\ SubSeq(p, 1, k - 1) = SubSeq(q, 1, k - 1)

C14_ResultInPreOrder ==
    outcome = "returned" =>
        /\ args.scan_path \in ResultPaths => result[1].path = args.scan_path
        /\ \A i, j \in 1..Len(result) :
             i < j =>
                LET p == result[i].path
                    q == result[j].path
                IN /\ ~IsPrefix(q, p)
                   /\ ~IsPrefix(p, q) =>
                        ListingPos(p[ForkIndex(p, q)]) < ListingPos(q[ForkIndex(p, q)])
        /\ \A D \in RealDirs(fs) :
             \A i, j, k \in 1..Len(result) :
                ( /\ i < j /\ j < k
                  /\ IsPrefix(D, result[i].path)
                  /\ IsPrefix(D, result[k].path) ) => IsPrefix(D, result[j].path)

C14_Witness_NestedAndSiblings ==
    /\ outcome = "returned"
    /\ result # <<>>
    /\ result[1].path = args.scan_path
    /\ \E i, j, k \in 1..Len(result) :
         /\ i < j /\ j < k
         /\ IsProperPrefix(args.scan_path, result[i].path)
         /\ IsProperPrefix(result[i].path, result[j].path)
         /\ ~IsPrefix(result[i].path, result[k].path)

(***************************************************************************)
(* C15: a second scan of the unchanged tree with the same arguments, run   *)
(* at any later time, returns the same list as the first: same paths, same *)
(* order, same value of every field, classification and prunable included. *)
(***************************************************************************)
SecondScanReturned == call.fn = "scan_for_projects" /\ outcome = "returned"

C15_RescanIdentical == SecondScanReturned => result = call.first

\* C15 as amended: the two lists agree in paths, order and every field
\* other than classification and prunable; they agree in these two as well
\* when every project has the same age in whole days at both scans.
ClockFree(p) == [p EXCEPT !.classification = "", !.is_prunable = FALSE]

SameAges ==
    \A i \in 1..Len(result) :
        (now - result[i].last_modified) \div TicksPerDay
            = (call.first_now - result[i].last_modified) \div TicksPerDay

C15_RescanIdenticalUpToAge ==
    SecondScanReturned =>
        /\ Len(result) = Len(call.first)
        /\ \A i \in 1..Len(result) : ClockFree(result[i]) = ClockFree(call.first[i])
        /\ SameAges => result = call.first

C15_Witness_LaterSameAge ==
    /\ SecondScanReturned
    /\ now > call.first_now
    /\ Len(result) >= 2
    /\ SameAges
    /\ result = call.first

(***************************************************************************)
(* C16: the scan never evaluates, reports, descends into or returns a path *)
(* that is a directory symlink or lies behind one; it visits no directory  *)
(* twice; and it terminates, also when symlinks point to ancestors: a      *)
(* natural number bounded by the real directories of the tree decreases    *)
(* with every step of the scan.                                            *)
(***************************************************************************)
\* Every step of p from the scan root down is a real directory.
ThroughRealDirsOnly(p) ==
    \A k \in Len(args.scan_path)..Len(p) : SubSeq(p, 1, k) \in RealDirs(fs)

LinksNeverFollowed ==
    /\ \A p \in EvaluatedPaths \cup ProgressPaths \cup FramePaths \cup {q.path : q \in AllProjects} :
         ThroughRealDirsOnly(p)
    /\ \A i, j \in 1..Len(evaluated) : evaluated[i] = evaluated[j] => i = j
    /\ \A i, j \in 1..Len(progress) : progress[i][1] = progress[j][1] => i = j

PcRank(pc) ==
    CASE pc = "check_root" -> 5
      [] pc = "root_meta" -> 4
      [] pc = "scandir" -> 3
      [] pc = "return" -> 1
      [] OTHER -> 2

RECURSIVE SumRanks(_)
SumRanks(frames) ==
    IF frames = <<>> THEN 0 ELSE PcRank(Head(frames).pc) + SumRanks(Tail(frames))

\* The work left: directories not yet evaluated, projects not yet built,
\* and the positions of the running calls.
WorkLeft ==
    IF outcome \in {"returned", "raised"} THEN 0
    ELSE 4 * (Cardinality(RealDirs(fs)) - Len(evaluated))
         + 4 * (Cardinality(RealDirs(fs)) - Cardinality(AllProjects))
         + SumRanks(stack)
         + (IF outcome = "idle" THEN 6 ELSE 0)

C16_LinksNeverFollowedAndTerminates ==
    /\ [](LinksNeverFollowed /\ WorkLeft >= 0)
    /\ [][WorkLeft' < WorkLeft]_vars

C16_Witness_CycleNotFollowed ==
    /\ outcome = "returned"
    /\ \E l \in DOMAIN fs :
         /\ fs[l].type = "link"
         /\ IsProperPrefix(fs[l].target, l)
         /\ ParentOf(l) \in EvaluatedPaths
    /\ \E l \in DOMAIN fs :
         /\ fs[l].type = "link"
         /\ ~IsPrefix(fs[l].target, l)
         /\ fs[l].target \in ResultPaths

(***************************************************************************)
(* C17: for a repository whose metadata is readable, the status reported   *)
(* by get_git_info is NoRemote when there is no remote or the current      *)
(* branch tracks no upstream, even with a dirty tree; otherwise Dirty when *)
(* the tree has uncommitted or untracked changes; otherwise Unpushed when  *)
(* commits are ahead of the upstream; otherwise Clean.  A detached head    *)
(* with a clean tree is Clean.                                             *)
(***************************************************************************)
GitInfoReturned == call.fn = "get_git_info" /\ ret.done

\* The repository get_git_info was called on.
HasRepo == Append(call.path, GIT_DIR) \in DOMAIN fs /\ "repo" \in DOMAIN fs[Append(call.path, GIT_DIR)]

CalledRepo == fs[Append(call.path, GIT_DIR)].repo

ClaimedStatus(repo) ==
    IF repo.remotes = <<>> \/ (~repo.detached /\ ~repo.tracking) THEN NO_REMOTE
    ELSE IF repo.dirty THEN DIRTY
    ELSE IF ~repo.detached /\ repo.ahead THEN UNPUSHED
    ELSE CLEAN

C17_StatusPrecedence ==
    (GitInfoReturned /\ HasRepo /\ CalledRepo.raises = "none") =>
        /\ ret.val.err = "ok"
        /\ ret.val.val.git_status = Some(ClaimedStatus(CalledRepo))

(***************************************************************************)
(* C18: when .git exists but the repository metadata is unreadable or      *)
(* invalid, or a git operation fails while get_git_info inspects it,       *)
(* get_git_info returns (true, None, None) and raises nothing.             *)
(***************************************************************************)
\* The operation that is set to fail is one get_git_info performs on this
\* repository: opening it always, is_dirty once a remote URL is resolved,
\* iter_commits on a clean tree of a branch with a tracking upstream.
OperationFails(repo) ==
    /\ repo.raises # "none"
    /\ \/ repo.at = "Repo"
       \/ repo.at = "is_dirty" /\ repo.remotes # <<>>
       \/ /\ repo.at = "iter_commits"
          /\ repo.remotes # <<>>
          /\ ~repo.dirty /\ ~repo.detached /\ repo.tracking

GitUnreadable ==
    /\ Append(call.path, GIT_DIR) \in DOMAIN fs
    /\ HasRepo => OperationFails(CalledRepo)

C18_FailureGivesUnknownFacts ==
    (GitInfoReturned /\ GitUnreadable) =>
        /\ ret.val.err = "ok"
        /\ ret.val.val = [has_git |-> TRUE, git_remote |-> None, git_status |-> None]

(***************************************************************************)
(* C19: for a readable repository, the remote get_git_info reports is the  *)
(* URL of the remote named origin when one exists, in whatever order the   *)
(* remotes were added; otherwise it is the URL of the first remote; and    *)
(* it is None exactly when the repository has no remote.                   *)
(***************************************************************************)
NamedOrigin(repo) == {i \in 1..Len(repo.remotes) : repo.remotes[i].name = "origin"}

ClaimedRemote(repo) ==
    IF NamedOrigin(repo) # {} THEN Some(UrlOf("origin"))
    ELSE IF repo.remotes # <<>> THEN Some(UrlOf(repo.remotes[1].name))
    ELSE None

C19_RemotePrefersOrigin ==
    (GitInfoReturned /\ HasRepo /\ CalledRepo.raises = "none") =>
        /\ ret.val.err = "ok"
        /\ ret.val.val.git_remote = ClaimedRemote(CalledRepo)
        /\ IsNone(ret.val.val.git_remote) <=> CalledRepo.remotes = <<>>

\* get_git_info has returned origin's URL for a repository whose origin
\* was added after another remote.
C19_Witness_OriginAddedSecond ==
    /\ GitInfoReturned /\ HasRepo /\ CalledRepo.raises = "none"
    /\ Len(CalledRepo.remotes) = 2
    /\ CalledRepo.remotes[1].name = "upstream"
    /\ CalledRepo.remotes[2].name = "origin"
    /\ ret.val.val.git_remote = Some(UrlOf("origin"))

(***************************************************************************)
(* C20: in every Project a scan builds, git_status and git_remote are      *)
(* present only if has_git is true; and when has_git is true, the remote   *)
(* is absent and the status is present, the status is NoRemote.            *)
(***************************************************************************)
VcsFieldsConsistent(p) ==
    /\ ~IsNone(p.git_status) => p.has_git
    /\ ~IsNone(p.git_remote) => p.has_git
    /\ (p.has_git /\ IsNone(p.git_remote) /\ ~IsNone(p.git_status)) =>
           p.git_status = Some(NO_REMOTE)

C20_VcsFieldsConsistent ==
    \A p \in AllProjects : VcsFieldsConsistent(p)

\* A returned scan holds a project without repository, one whose
\* repository has no remote, and one with a remote.
C20_Witness_ThreeVcsShapes ==
    /\ outcome = "returned"
    /\ \E p, q, r \in AllProjects :
         /\ ~p.has_git /\ IsNone(p.git_remote) /\ IsNone(p.git_status)
         /\ q.has_git /\ IsNone(q.git_remote) /\ q.git_status = Some(NO_REMOTE)
         /\ r.has_git /\ ~IsNone(r.git_remote) /\ ~IsNone(r.git_status)

(***************************************************************************)
(* C21: get_directory_size(dir) is the sum of the sizes of the regular     *)
(* files reachable from dir by recursive descent, divided by 1,048,576;    *)
(* an unreadable file or directory contributes zero and does not abort     *)
(* the sum; the result is 0 for an empty or unreadable directory; a file   *)
(* in a sub-directory, at any depth, is counted exactly once.              *)
(***************************************************************************)
Listable(f, d) == f[d].type = "dir" /\ f[d].mode # "-wx"

Searchable(f, d) == f[d].mode # "rw-"

\* The directories a descent from dir gets into: each directory from dir
\* down to d can be listed, and each one above d can be searched.
DescentDirs(f, dir) ==
    {d \in DOMAIN f :
        /\ IsPrefix(dir, d)
        /\ \A k \in Len(dir)..Len(d) : Listable(f, SubSeq(d, 1, k))
        /\ \A k \in Len(dir)..(Len(d) - 1) : Searchable(f, SubSeq(d, 1, k))}

\* The regular files of those directories that can be stat'ed.
DescentFiles(f, dir) ==
    {q \in DOMAIN f :
        /\ f[q].type = "file"
        /\ ParentOf(q) \in DescentDirs(f, dir)
        /\ Searchable(f, ParentOf(q))}

SizeReturned == call.fn = "get_directory_size" /\ ret.done

C21_SizeIsSumOfReachableFiles ==
    SizeReturned =>
        /\ ret.val = Rat(SumSizes(fs, DescentFiles(fs, call.path)), BYTES_PER_MB)
        /\ (Children(fs, call.path) = {} \/ ~Listable(fs, call.path)) => ret.val.n = 0

\* A file two levels down is counted beside a file at the top, while a
\* sibling directory that holds a file cannot be listed.
C21_Witness_DeepFileAndUnreadableSibling ==
    /\ SizeReturned
    /\ \E q, r, u \in DOMAIN fs :
         /\ fs[q].type = "file" /\ Len(q) = Len(call.path) + 3
         /\ fs[r].type = "file" /\ Len(r) = Len(call.path) + 1
         /\ fs[u].type = "file" /\ ~Listable(fs, ParentOf(u))
         /\ ret.val.n = fs[q].size + fs[r].size

(***************************************************************************)
(* C22: get_last_modified(dir) is the latest modification time among dir   *)
(* itself and every directory and file reachable from it by recursive      *)
(* descent, at any depth; unreadable entries are skipped without failure;  *)
(* the result is never earlier than dir's own modification time.           *)
(***************************************************************************)
LastModifiedReturned == call.fn = "get_last_modified" /\ ret.done

DescentTimes(f, dir) ==
    {f[dir].mtime}
    \cup {f[d].mtime : d \in DescentDirs(f, dir)}
    \cup {f[q].mtime : q \in DescentFiles(f, dir)}

C22_LastModifiedIsLatestReachable ==
    LastModifiedReturned =>
        /\ ret.val.err = "ok"
        /\ ret.val.val \in DescentTimes(fs, call.path)
        /\ \A t \in DescentTimes(fs, call.path) : ret.val.val >= t
        /\ ret.val.val >= fs[call.path].mtime

\* The only recent entry is a file in a sub-directory of a sub-directory,
\* and its time is the result.
C22_Witness_RecentFileTwoLevelsDeep ==
    /\ LastModifiedReturned
    /\ \E q \in DOMAIN fs :
         /\ fs[q].type = "file" /\ Len(q) = Len(call.path) + 3
         /\ \A r \in DOMAIN fs \ {q} : fs[r].mtime < fs[q].mtime
         /\ ret.val.val = fs[q].mtime

(***************************************************************************)
(* C23: a directory that has among its direct entries a file whose name    *)
(* matches *.csproj or *.sln (App.csproj, say), and no marker of a type    *)
(* of higher priority, is detected as C#/.NET, and is_project_directory    *)
(* is true for it even without .git or a README.                           *)
(***************************************************************************)
HasCsharpFile(f, path) ==
    \E n \in FileNamesIn(f, path) :
        GlobMatch(n, <<"*", ".csproj">>) \/ GlobMatch(n, <<"*", ".sln">>)

NoTypeAboveCsharp(f, path) ==
    \A i \in 1..Len(ClaimedMarkers) :
        (\E j \in i..Len(ClaimedMarkers) : ClaimedMarkers[j].type = CSHARP /\ i < j) =>
            ~HasMarker(NamesIn(f, path), ClaimedMarkers[i])

C23_CsharpDetectedByGlob ==
    /\ (call.fn = "detect_project_type" /\ ret.done
          /\ HasCsharpFile(fs, call.path) /\ NoTypeAboveCsharp(fs, call.path)) =>
           ret.val = Ok(CSHARP)
    /\ (call.fn = "is_project_directory" /\ ret.done /\ HasCsharpFile(fs, call.path)) =>
           ret.val = Ok(TRUE)

(***************************************************************************)
(* C24: every directory whose base name is one of the ignore patterns is   *)
(* skipped entirely, the scan root included: it is neither evaluated as a  *)
(* project nor descended into, and no Project of a scan result has a name  *)
(* that is among the ignore patterns of that scan.                         *)
(***************************************************************************)
C24_IgnoredNamesNeverInResult ==
    /\ \A D \in EvaluatedPaths \cup FramePaths : BaseName(D) \notin IgnoreSet
    /\ \A p \in AllProjects : p.name \notin IgnoreSet

(***************************************************************************)
(* C25: create_readme never overwrites.  When README.md exists in the      *)
(* project directory it raises FileExistsError and leaves that file and    *)
(* every other file as they were.  When it does not exist, the call        *)
(* creates exactly README.md with the content get_readme_template gives    *)
(* for the name and type; afterwards find_readme on the directory returns  *)
(* that path and is_project_directory is true.                             *)
(***************************************************************************)
CreateReadmeReturns == call.fn = "create_readme" /\ ~ret.done /\ ret'.done

ReadmeMd == Append(call.path, <<"README", ".md">>)

C25_CreateReadmeStep ==
    (CreateReadmeReturns /\ call.path \in RealDirs(fs)) =>
        IF ReadmeMd \in DOMAIN fs
        THEN /\ ret'.val = Err("FileExistsError")
             /\ fs' = fs
        ELSE /\ ret'.val = Ok(ReadmeMd)
             /\ DOMAIN fs' = DOMAIN fs \cup {ReadmeMd}
             /\ \A q \in DOMAIN fs \ {call.path} : fs'[q] = fs[q]
             /\ fs'[ReadmeMd].type = "file"
             /\ fs'[ReadmeMd].content = get_readme_template(call.project_name, call.project_type)
             /\ find_readme(fs', call.path, call.path) = Ok(Some(ReadmeMd))
             /\ is_project_directory(fs', call.path, call.path) = Ok(TRUE)

C25_CreateReadmeNeverOverwrites == [][C25_CreateReadmeStep]_vars

\* create_readme has returned the path of a README.md it wrote into a
\* directory that held a readme.md and a README.txt but no README.md.
C25_Witness_CreatedBesideOtherReadmes ==
    /\ call.fn = "create_readme" /\ ret.done
    /\ ret.val = Ok(ReadmeMd)
    /\ {Append(call.path, <<"readme", ".md">>), Append(call.path, <<"README", ".txt">>)}
           \subseteq DOMAIN fs
    /\ fs[ReadmeMd].content = [template |-> NODEJS, project_name |-> "node-app"]

(***************************************************************************)
(* C26: Config.load_ignore_patterns(scan_root) returns the configured      *)
(* patterns followed, in file order, by every stripped line of             *)
(* scan_root/.lpmignore and then of the global ignore file that is not     *)
(* empty and does not start with "#".  It leaves the configured list and   *)
(* DEFAULT_IGNORE_PATTERNS as they were: with no ignore file the result    *)
(* of a default configuration is DEFAULT_IGNORE_PATTERNS, and repeated     *)
(* calls, or repeated Config.load calls, return equal lists.               *)
(***************************************************************************)
\* The lines of a file that count, stripped, in file order.
KeptLines(file) ==
    IF IsNone(file) THEN <<>>
    ELSE LET stripped == [i \in 1..Len(file[1]) |-> Strip(file[1][i])]
         IN SelectSeq(stripped, LAMBDA l : l # <<>> /\ l[1] # "#")

\* What was configured for config c: the defaults, then the TOML patterns.
Configured(c) ==
    DEFAULT_IGNORE_PATTERNS \o (IF IsNone(c.toml) THEN <<>> ELSE c.toml[1])

ClaimedReadmeOrder ==
    << <<"README", ".md">>, <<"readme", ".md">>, <<"Readme", ".md">>,
       <<"README", ".txt">>, <<"readme", ".txt">>, <<"Readme", ".txt">> >>

ClaimedReadme(f, path) ==
    LET present == {i \in 1..Len(ClaimedReadmeOrder) :
                      ClaimedReadmeOrder[i] \in FileNamesIn(f, path)}
    IN IF present = {} THEN None
       ELSE Some(Append(path, ClaimedReadmeOrder[CHOOSE i \in present :
                                                   \A j \in present : i <= j]))

C27_ReadmeMdBeforeTxt ==
    (call.fn = "find_readme" /\ ret.done) =>
        ret.val = Ok(ClaimedReadme(fs, call.path))

(***************************************************************************)
(* C28: whenever the table shows at least one row (the cursor is then on   *)
(* a row) and no dialog is open, get_selected_project returns the Project  *)
(* that row displays, the one whose path is the row's key, for every       *)
(* project list and every filter; so an action key pressed there is never  *)
(* silently without effect.                                                *)
(***************************************************************************)
RowUnderCursor == app.rows[app.cursor_row + 1]

C28_SelectedProjectIsRowUnderCursor ==
    (OnMain /\ app.rows # <<>>) =>
        LET project == get_selected_project(app) IN
        /\ ~IsNone(project)
        /\ PurePath(app.anchor, project[1].path) = RowUnderCursor.key

(***************************************************************************)
(* C30: in every sequence of key presses and dialog answers, the           *)
(* filesystem changes only in the step that answers Yes to the open        *)
(* confirmation dialog, and then by exactly the operation that dialog was  *)
(* opened for (create README, delete README, remove the directory tree)    *)
(* on the project it was opened for; answering No, or pressing c, d or p   *)
(* while get_selected_project finds no project, changes neither the        *)
(* filesystem nor the list of projects held in memory, and opens nothing.  *)
(***************************************************************************)
ActionKeys == {"create_readme", "delete_readme", "prune_project"}

Destroyed(f, dialog) ==
    CASE dialog.action = "create_readme" ->
           create_readme(f, now, dialog.project.path, dialog.project.name,
                         dialog.project.project_type).fs
      [] dialog.action = "delete_readme" ->
           delete_readme(f, now, dialog.project.readme_path[1]).fs
      [] dialog.action = "prune_project" -> Rmtree(f, dialog.project.path).fs

AnswerStep(key) ==
    /\ app.kind = "tui" /\ app.screens # <<>>
    /\ app'.screens = <<>> /\ app'.event.key = key

C30_Step ==
    /\ fs' # fs =>
         /\ AnswerStep("yes")
         /\ app'.event.dialog = app.screens[1]
         /\ fs' = Destroyed(fs, app.screens[1])
    /\ AnswerStep("no") =>
         /\ fs' = fs
         /\ app'.projects = app.projects
         /\ app'.rows = app.rows
    /\ (OnMain /\ app' # app /\ app'.event.key \in ActionKeys
              /\ IsNone(app'.event.selected)) =>
         /\ fs' = fs
         /\ app'.projects = app.projects
         /\ app'.screens = <<>>

C30_DestructionOnlyAfterYes == [][C30_Step]_vars

C30_Witness_PrunedAfterYes ==
    /\ app.kind = "tui"
    /\ app.event.key = "yes"
    /\ app.event.dialog.action = "prune_project"
    /\ app.event.dialog.project.path \notin DOMAIN fs
    /\ app.phase = "main"
    /\ app.projects = <<>>

(***************************************************************************)
(* C29: in every scan result over a tree without unreadable entries that   *)
(* does not change during the scan, for any two entries P and Q where P's  *)
(* path is a proper ancestor of Q's path, P.size_mb >= Q.size_mb and       *)
(* P.last_modified >= Q.last_modified, and P is not Dormant or Stale       *)
(* while Q is Active or Work-in-Progress.                                  *)
(***************************************************************************)
\* Sizes in MB share the denominator 1024 * 1024.
RatGE(a, b) == IF a.d = b.d THEN a.n >= b.n ELSE a.n * b.d >= b.n * a.d

AncestorPairs ==
    {pq \in Range(result) \X Range(result) : IsProperPrefix(pq[1].path, pq[2].path)}

C29_ParentAggregatesDominate ==
    \A pq \in AncestorPairs :
        LET P == pq[1]
            Q == pq[2]
        IN /\ RatGE(P.size_mb, Q.size_mb)
           /\ P.last_modified >= Q.last_modified
           /\ ~(P.classification \in {DORMANT, STALE} /\ Q.classification \in {ACTIVE, WIP})

\* A recent parent project holds an old nested project, and its own
\* aggregates count an ignored sub-directory.
C29_Witness_NestedProjectAndIgnoredDir ==
    /\ outcome = "returned"
    /\ N_NODE_MODULES \in Range(args.ignore_patterns)
    /\ Append(RootPath, N_NODE_MODULES) \in DOMAIN fs
    /\ \E pq \in AncestorPairs :
         /\ ~RatGE(pq[2].size_mb, pq[1].size_mb)
         /\ pq[1].last_modified > pq[2].last_modified
         /\ pq[1].classification = ACTIVE
         /\ pq[2].classification = STALE
         /\ pq[1].last_modified > fs[pq[1].path].mtime

====
